---- MODULE Spec2Model ----
(***************************************************************************)
(* Model of the homework-handin core of Cooper_bot.                        *)
(*                                                                         *)
(* Part 1 (specification Spec): the task store of handinsvc.py             *)
(* (HandinService.create_task, cancel_task, the retention sweep, the       *)
(* persisted document) together with HandinService.scheduler_loop and the  *)
(* connection loop of client.py that starts and cancels it.                *)
(*                                                                         *)
(* The clock `now` has the granularity of int(time.time()): one tick is    *)
(* one clock second.  The windows of the program (retention window, sweep  *)
(* throttle) are scaled down to a few ticks, keeping their order.          *)
(*                                                                         *)
(* asyncio is cooperative: code between two awaits runs without            *)
(* interleaving.  The scheduler is therefore modelled with a program       *)
(* counter; every other operation is enabled only while the scheduler is   *)
(* suspended at an await (or not running).                                 *)
(***************************************************************************)
EXTENDS Integers, Sequences, FiniteSets, TLC

\* ---------------------------------------------------------------- bounds
MaxTime == 4        \* the clock runs from 1 to MaxTime
MaxObjs == 2        \* HandinTask objects ever constructed
MaxFaults == 1      \* connection losses + failed sends in one behaviour
MaxExports == 1     \* bulk exports in one behaviour
MaxFiles == 3       \* files the user sends in one behaviour
MaxEvents == 4      \* events received in one behaviour
MaxConnections == 2 \* connections opened in one behaviour
MaxStem == 5 \* characters of an enumerated file-name stem

\* ------------------------------------------------------- program constants
KEEP_TICKS == 1           \* HANDIN_KEEP_DAYS_AFTER_LAST_GET * 86400, scaled
CLEANUP_EVERY == 1        \* the scheduler's sweep throttle (3600 s), scaled
MAX_DISPATCH_CONCURRENCY == 3   \* client.py: 32, scaled

Groups == {1}
Creators == {10}
Actors == {10}
\* the arguments create_task is called with: <<name, remind_ts_list, deadline_ts>>;
\* the raw reminder list comes in any order and may hold duplicates
CreateInputs ==
    { <<"hw1", <<>>, 2>>,
      <<"hw1", <<>>, 3>>,
      <<"hw1", <<3, 2, 2>>, 3>>,      \* a reminder not before the deadline
      <<"hw2", <<3, 2, 2>>, 4>>,      \* reminders, then the deadline
      <<"", <<>>, 3>>,                \* empty name
      <<"h w", <<>>, 3>> }            \* name with a space

VARIABLES
    now,          \* time.time(), in clock seconds
    heap,         \* every HandinTask object ever constructed, by identity
    tbl,          \* HandinService._tasks: object ids in dict (insertion) order
    db,           \* the persisted document: the records written by _save
    dirs,         \* task directories that exist: <<group_id, name>>
    lastCleanup,  \* HandinService._last_cleanup_ts
    spc,          \* scheduler position: off, sleep, iter, body, rem_await, dl_await
    squeue,       \* the objects of this pass still to visit (list(self._tasks.values()))
    scur,         \* the object the scheduler is working on (0: none)
    snow,         \* `now` as sampled at the start of the pass
    schanged,     \* the pass's `changed` flag
    delivered,    \* the in-flight send_private_msg has reached the transport
    remCount,     \* per object: reminder notifications sent, per reminder index
    dlCount,      \* per object: deadline notifications sent
    faults,       \* connection losses and failed sends so far
    exports,      \* bulk exports so far
    queue,        \* BotState.pending_handin_files[User]: items [path, name]
    files,        \* temporary files (inbox, batch zips): <<path, content>>
    archive,      \* archived files: <<<<group, task name>>, file name, content>>
    waitDone,     \* User in BotState.pending_handin_wait_done
    zipName,      \* User in BotState.pending_handin_zip_name
    nameInput,    \* User in BotState.pending_handin_name_input
    choose,       \* BotState.pending_handin_choose[User]
    overwrite,    \* BotState.pending_handin_overwrite[User]
    nfiles,       \* files sent so far
    up,           \* the file transfer of a /get: _send_file and its caller
    cl,           \* run_forever: the connection, its dispatch tasks, the scheduler tasks
    cm,           \* the last compute_missing call: its inputs and what it returned
    xn            \* the last file name given to the extractors, and what they returned

vars == <<now, heap, tbl, db, dirs, lastCleanup, spc, squeue, scur, snow,
          schanged, delivered, remCount, dlCount, faults, exports,
          queue, files, archive, waitDone, zipName, nameInput, choose,
          overwrite, nfiles, up, cl, cm, xn>>

schedVars == <<spc, squeue, scur, snow, schanged, delivered>>

\* ------------------------------------------------------------- helpers
RECURSIVE SortedSeq(_)
\* sorted(set(rlist))
SortedSeq(S) ==
    IF S = {} THEN <<>>
    ELSE LET m == CHOOSE x \in S : \A y \in S : x <= y
         IN <<m>> \o SortedSeq(S \ {m})

SeqRange(s) == {s[i] : i \in 1..Len(s)}

\* an activity test that still counts the deadline's own second
IsActive_AtDeadline(t, n) == (~t.closed) /\ n <= t.deadline_ts
\* HandinTask.is_active
IsActive(t, n) == (~t.closed) /\ n < t.deadline_ts

\* f"{int(group_id)}:{name}:{int(time.time())}"
TaskId(g, n, sec) == <<g, n, sec>>

TableIds == {heap[tbl[i]].task_id : i \in 1..Len(tbl)}
TableObjs == SeqRange(tbl)

\* self._tasks.get(tid): the object id, 0 for None
Lookup(tid) ==
    IF \E i \in 1..Len(tbl) : heap[tbl[i]].task_id = tid
    THEN tbl[CHOOSE i \in 1..Len(tbl) : heap[tbl[i]].task_id = tid]
    ELSE 0

\* self._tasks[tid] = obj: a new key is appended, an existing key keeps its
\* position and gets the new value
TablePut(t, tid, obj) ==
    IF \E i \in 1..Len(t) : heap[t[i]].task_id = tid
    THEN [i \in 1..Len(t) |-> IF heap[t[i]].task_id = tid THEN obj ELSE t[i]]
    ELSE Append(t, obj)

\* HandinService._save: {tid: asdict(t)} written to a temp file and renamed
Snapshot(h, t) == [i \in 1..Len(t) |-> h[t[i]]]

\* dispatch code runs only while the scheduler is suspended or not running
SchedSuspended == spc \in {"off", "sleep", "rem_await", "dl_await"}

\* no /get is being served
UpIdle ==
    [pc |-> "idle", scene |-> "none", arch |-> FALSE, phase |-> "none",
     chan |-> "none", idx |-> 0, d |-> <<>>, gd |-> <<>>, log |-> <<>>,
     ret |-> [sent |-> "unset", detail |-> <<>>],
     ok_list |-> <<>>, pending_list |-> <<>>, bad_list |-> <<>>,
     reply |-> {}, task |-> 0]

\* the extractors have not been called
XnNone == [stem |-> <<>>, called |-> FALSE, name |-> <<>>, sid |-> <<>>]

\* compute_missing has not been called
CmNone ==
    [roster |-> <<>>, files |-> {}, names |-> <<>>, called |-> FALSE,
     out |-> [ok |-> FALSE, missing |-> <<>>, stats |-> [e \in {} |-> 0]]]

\* conv_key(ctx): a private conversation and a member of a group
ConvKeys == {"p:10:private", "g:1:10"}

\* run_forever before the first websockets.connect
ClStart ==
    [pc |-> "down", gen |-> 0, tasks |-> <<>>, sched |-> <<>>,
     semq |-> <<>>, lockq |-> [k \in ConvKeys |-> <<>>], pending |-> {}]

\* the bot after construction: empty stores, idle scheduler, no session
Constructed ==
    /\ now = 1
    /\ heap = <<>>
    /\ tbl = <<>>
    /\ db = <<>>
    /\ dirs = {}
    /\ lastCleanup = 0
    /\ spc = "sleep"
    /\ squeue = <<>>
    /\ scur = 0
    /\ snow = 0
    /\ schanged = FALSE
    /\ delivered = FALSE
    /\ remCount = <<>>
    /\ dlCount = <<>>
    /\ faults = 0
    /\ exports = 0
    /\ queue = <<>>
    /\ files = {}
    /\ archive = {}
    /\ waitDone = FALSE
    /\ zipName = FALSE
    /\ nameInput = FALSE
    /\ choose = [mode |-> "none", task_ids |-> <<>>, group_id |-> 0]
    /\ overwrite = [task_id |-> <<>>, path |-> <<>>]
    /\ nfiles = 0
    /\ up = UpIdle
    /\ cl = ClStart

\* ... and neither compute_missing nor the extractors called yet
Init == Constructed /\ cm = CmNone /\ xn = XnNone

\* a step of the task store or of the scheduler leaves the conversation
\* and the file transfer alone
NoSession ==
    UNCHANGED <<queue, files, archive, waitDone, zipName, nameInput,
                choose, overwrite, nfiles, up, cl, cm, xn>>

\* ------------------------------------------------------------ the clock
Tick ==
    /\ SchedSuspended
    /\ NoSession
    /\ now < MaxTime
    /\ now' = now + 1
    /\ UNCHANGED <<heap, tbl, db, dirs, lastCleanup, schedVars, remCount,
                   dlCount, faults, exports>>

\* ------------------------------------------------------- create_task
NewTask(g, c, n, rlist, d) ==
    [task_id |-> TaskId(g, n, now), group_id |-> g, creator_id |-> c,
     name |-> n, created_ts |-> now, remind_ts_list |-> rlist,
     remind_sent_idx |-> 0, deadline_ts |-> d, deadline_sent |-> FALSE,
     closed |-> FALSE, cancelled |-> FALSE, cancelled_ts |-> 0,
     cancelled_by |-> 0, last_handinget_ts |-> 0, purged |-> FALSE,
     purged_ts |-> 0]

\* a duplicate check that only looks the new key up in the table
DuplicateActive_KeyOnly(g, n) == TaskId(g, n, now) \in TableIds

\* a duplicate check that looks at the closed flag and not at the deadline
DuplicateActive_ClosedOnly(g, n) ==
    \E o \in TableObjs :
        heap[o].group_id = g /\ heap[o].name = n /\ ~heap[o].closed

\* the duplicate check of create_task: a task of the same group and name
\* that is_active() now
DuplicateActive(g, n) ==
    \E o \in TableObjs :
        heap[o].group_id = g /\ heap[o].name = n /\ IsActive(heap[o], now)

\* return False, <message>: nothing is stored and nothing is saved
CreateFails(code) ==
    /\ code \in {"InvalidName", "RemindersNotBeforeDeadline",
                 "DuplicateActiveTask"}
    /\ UNCHANGED <<now, heap, tbl, db, dirs, lastCleanup, schedVars,
                   remCount, dlCount, faults, exports>>

\* a reminder test that lets a reminder at the deadline itself pass
RemindersLate_AtDeadlineOk(rlist, d) ==
    rlist # <<>> /\ rlist[Len(rlist)] > d
\* rlist and rlist[-1] >= dts
RemindersLate(rlist, d) ==
    rlist # <<>> /\ rlist[Len(rlist)] >= d

CreateTask(g, c, n, raw, d) ==
    /\ SchedSuspended
    /\ NoSession
    /\ LET rlist == SortedSeq(SeqRange(raw))
       IN IF n = "" \/ n = "h w"
          THEN CreateFails("InvalidName")
          ELSE IF RemindersLate(rlist, d)
          THEN CreateFails("RemindersNotBeforeDeadline")
          ELSE IF DuplicateActive(g, n)
          THEN CreateFails("DuplicateActiveTask")
          ELSE /\ Len(heap) < MaxObjs
               /\ LET obj == Len(heap) + 1
                      tid == TaskId(g, n, now)
                      h2 == Append(heap, NewTask(g, c, n, rlist, d))
                      t2 == TablePut(tbl, tid, obj)
                  IN /\ heap' = h2
                     /\ tbl' = t2
                     /\ db' = Snapshot(h2, t2)
                     /\ dirs' = dirs \cup {<<g, n>>}
                     /\ remCount' = Append(remCount, [i \in 1..Len(rlist) |-> 0])
                     /\ dlCount' = Append(dlCount, 0)
               /\ UNCHANGED <<now, lastCleanup, schedVars, faults, exports>>

\* ------------------------------------------------------- cancel_task
CancelFails(code) ==
    /\ code \in {"NotFound", "AlreadyClosed"}
    /\ UNCHANGED <<now, heap, tbl, db, dirs, lastCleanup, schedVars,
                   remCount, dlCount, faults, exports>>

CancelTask(tid, by) ==
    /\ SchedSuspended
    /\ NoSession
    /\ LET o == Lookup(tid)
       IN IF o = 0 THEN CancelFails("NotFound")
          ELSE IF heap[o].closed THEN CancelFails("AlreadyClosed")
          ELSE LET h2 == [heap EXCEPT ![o].closed = TRUE,
                                      ![o].deadline_sent = TRUE,
                                      ![o].cancelled = TRUE,
                                      ![o].cancelled_ts = now,
                                      ![o].cancelled_by = by]
               IN /\ heap' = h2
                  /\ db' = Snapshot(h2, tbl)
                  /\ UNCHANGED <<now, tbl, dirs, lastCleanup, schedVars,
                                 remCount, dlCount, faults, exports>>

\* ---------------------------------------------- bulk export (/handinget)
\* commands.py, getzip mode: after a delivery that ended Sent or Pending,
\* task.last_handinget_ts = time.time(); handin._save().  zip_submissions
\* refuses a purged task.
\* the directory of a task: handin_root / group_id / name
TaskDir(t) == <<t.group_id, t.name>>

\* _task_files_dir: d.mkdir(parents=True, exist_ok=True); the directories
\* on disk after the call
TaskFilesDir(d, t) == d \cup {TaskDir(t)}

\* is_task_gettable(task) with the directories d on disk: the value
\* returned and the directories afterwards
IsTaskGettable(d, t) ==
    IF t.purged THEN [ret |-> FALSE, dirs |-> d]
    ELSE [ret |-> TaskDir(t) \in TaskFilesDir(d, t), dirs |-> TaskFilesDir(d, t)]

\* zip_submissions(task, out_zip): ok, whether the archive file out_zip
\* was written, and the directories afterwards
ZipSubmissions(d, t) ==
    IF t.purged THEN [ok |-> FALSE, zip |-> FALSE, dirs |-> d]
    ELSE IF TaskDir(t) \notin TaskFilesDir(d, t)
    THEN [ok |-> FALSE, zip |-> FALSE, dirs |-> TaskFilesDir(d, t)]
    ELSE [ok |-> TRUE, zip |-> TRUE, dirs |-> TaskFilesDir(d, t)]

RecordExport(o) ==
    /\ SchedSuspended
    /\ NoSession
    /\ o \in TableObjs
    /\ ZipSubmissions(dirs, heap[o]).ok
    /\ dirs' = ZipSubmissions(dirs, heap[o]).dirs
    /\ LET h2 == [heap EXCEPT ![o].last_handinget_ts = now]
       IN /\ heap' = h2
          /\ db' = Snapshot(h2, tbl)
    /\ exports < MaxExports
    /\ exports' = exports + 1
    /\ UNCHANGED <<now, tbl, lastCleanup, schedVars, remCount,
                   dlCount, faults>>

\* /handinstatus, /handinget, /handinlist: the task list is filtered by
\* is_task_gettable, called on every task of the table
ListGettable ==
    /\ SchedSuspended
    /\ NoSession
    /\ TableObjs # {}
    /\ dirs' = dirs \cup UNION {IsTaskGettable(dirs, heap[o]).dirs : o \in TableObjs}
    /\ UNCHANGED <<now, heap, tbl, db, lastCleanup, schedVars, remCount,
                   dlCount, faults, exports>>

\* ------------------------------------------------- the retention sweep
\* a sweep test that forgets the retention window
PurgeDue_NoWindow(t, n) ==
    /\ ~t.purged
    /\ t.last_handinget_ts > 0
    /\ ~IsActive(t, n)

\* the test of cleanup_archives_and_inbox for one task
PurgeDue(t, n) ==
    /\ ~t.purged
    /\ t.last_handinget_ts > 0
    /\ ~IsActive(t, n)
    /\ n - t.last_handinget_ts >= KEEP_TICKS

\* _purge_task_archive: rmtree of the task directory, then the flag
PurgeTask(t, n) == [t EXCEPT !.purged = TRUE, !.purged_ts = n]

\* the objects the sweep purges at time n
SweepSet(n) == {o \in TableObjs : PurgeDue(heap[o], n)}

\* cleanup_archives_and_inbox(now): the heap after the sweep
SweepHeap(n) ==
    [o \in 1..Len(heap) |->
        IF o \in SweepSet(n) THEN PurgeTask(heap[o], n) ELSE heap[o]]

SweepDirs(n) ==
    dirs \ {<<heap[o].group_id, heap[o].name>> : o \in SweepSet(n)}

\* ------------------------------------------------------ scheduler_loop
\* await asyncio.sleep(10) returns: now is sampled, the throttled sweep
\* runs, and the pass takes its snapshot list(self._tasks.values())
SchedWake ==
    /\ spc = "sleep"
    /\ NoSession
    /\ snow' = now
    /\ IF now - lastCleanup >= CLEANUP_EVERY
       THEN /\ heap' = SweepHeap(now)
            /\ dirs' = SweepDirs(now)
            /\ schanged' = (SweepSet(now) # {})
            /\ lastCleanup' = now
       ELSE /\ schanged' = FALSE
            /\ UNCHANGED <<heap, dirs, lastCleanup>>
    /\ squeue' = tbl
    /\ scur' = 0
    /\ spc' = "iter"
    /\ UNCHANGED <<now, tbl, db, delivered, remCount, dlCount, faults, exports>>

\* for t in ...: if t.closed: continue.  At the end of the list:
\* if changed: self._save()
SchedNext ==
    /\ spc = "iter"
    /\ NoSession
    /\ IF squeue = <<>>
       THEN /\ db' = IF schanged THEN Snapshot(heap, tbl) ELSE db
            /\ spc' = "sleep"
            /\ schanged' = FALSE
            /\ snow' = 0
            /\ UNCHANGED <<squeue, scur>>
       ELSE /\ squeue' = Tail(squeue)
            /\ IF heap[Head(squeue)].closed
               THEN UNCHANGED <<spc, scur>>
               ELSE /\ scur' = Head(squeue)
                    /\ spc' = "body"
            /\ UNCHANGED <<db, schanged, snow>>
    /\ UNCHANGED <<now, heap, tbl, dirs, lastCleanup, delivered,
                   remCount, dlCount, faults, exports>>

\* a reminder loop that drops the reminders once the deadline has come
RemindDue_BeforeDeadline(t, n) ==
    /\ t.remind_sent_idx < Len(t.remind_ts_list)
    /\ n >= t.remind_ts_list[t.remind_sent_idx + 1]
    /\ n < t.deadline_ts

\* the while condition of the reminder loop
RemindDue(t, n) ==
    /\ t.remind_sent_idx < Len(t.remind_ts_list)
    /\ n >= t.remind_ts_list[t.remind_sent_idx + 1]

\* the condition of the deadline branch
DeadlineDue(t, n) == (~t.deadline_sent) /\ n >= t.deadline_ts

\* the body for task t up to its next await: the reminder loop's test, then
\* the deadline test; a send suspends the scheduler
SchedBody ==
    /\ spc = "body"
    /\ NoSession
    /\ IF RemindDue(heap[scur], snow) THEN spc' = "rem_await"
       ELSE IF DeadlineDue(heap[scur], snow) THEN spc' = "dl_await"
       ELSE spc' = "iter"
    /\ delivered' = FALSE
    /\ UNCHANGED <<now, heap, tbl, db, dirs, lastCleanup, squeue, scur, snow,
                   schanged, remCount, dlCount, faults, exports>>

\* the transport executes the send_private_msg the scheduler is awaiting:
\* the creator receives the notification
Deliver ==
    /\ spc \in {"rem_await", "dl_await"}
    /\ NoSession
    /\ ~delivered
    /\ delivered' = TRUE
    /\ IF spc = "rem_await"
       THEN /\ remCount' = [remCount EXCEPT
                   ![scur][heap[scur].remind_sent_idx + 1] = @ + 1]
            /\ UNCHANGED dlCount
       ELSE /\ dlCount' = [dlCount EXCEPT ![scur] = @ + 1]
            /\ UNCHANGED remCount
    /\ UNCHANGED <<now, heap, tbl, db, dirs, lastCleanup, spc, squeue, scur,
                   snow, schanged, faults, exports>>

\* await api.send_private_msg(...) returns in the reminder loop:
\* the send returns, with the transport's answer or with None when neither
\* HTTP nor the WS fallback got the message through (OneBotAPI.call); the
\* scheduler does not look at the result
SendReturns ==
    /\ delivered \/ faults < MaxFaults
    /\ faults' = IF delivered THEN faults ELSE faults + 1

\* t.remind_sent_idx = idx + 1; changed = True; back to the while test.
\* idx was read before the await.
SchedRemindResume ==
    /\ spc = "rem_await"
    /\ NoSession
    /\ SendReturns
    /\ heap' = [heap EXCEPT ![scur].remind_sent_idx = @ + 1]
    /\ schanged' = TRUE
    /\ spc' = "body"
    /\ UNCHANGED <<now, tbl, db, dirs, lastCleanup, squeue, scur, snow,
                   delivered, remCount, dlCount, exports>>

\* the send of the deadline branch returns:
\* t.deadline_sent = True; t.closed = True; changed = True
SchedDeadlineResume ==
    /\ spc = "dl_await"
    /\ NoSession
    /\ SendReturns
    /\ heap' = [heap EXCEPT ![scur].deadline_sent = TRUE,
                            ![scur].closed = TRUE]
    /\ schanged' = TRUE
    /\ spc' = "iter"
    /\ UNCHANGED <<now, tbl, db, dirs, lastCleanup, squeue, scur, snow,
                   delivered, remCount, dlCount, exports>>

\* the send raises (HTTP failed and the WS fallback's ws.send raises):
\* `except Exception` ends the pass, nothing is marked and nothing is saved
SchedSendRaises ==
    /\ spc \in {"rem_await", "dl_await"}
    /\ NoSession
    /\ ~delivered
    /\ faults < MaxFaults
    /\ faults' = faults + 1
    /\ UNCHANGED exports
    /\ spc' = "sleep"
    /\ squeue' = <<>>
    /\ scur' = 0
    /\ schanged' = FALSE
    /\ UNCHANGED <<now, heap, tbl, db, dirs, lastCleanup, snow, delivered,
                   remCount, dlCount>>

\* task directories that have become unusable after the task was created
\* (no permission, a file in the place of <task>/files): _task_files_dir's
\* mkdir raises, and with it list_submitted_files and compute_missing
BrokenDirs == {<<1, "hw1">>}

Broken(t) == <<t.group_id, t.name>> \in BrokenDirs

\* the body calls compute_missing(t) before every send
NeedsMissingList(t, n) == RemindDue(t, n) \/ DeadlineDue(t, n)

\* the body for a task whose directory is usable, or that has nothing due
SchedBodyOk ==
    /\ spc = "body"
    /\ ~(Broken(heap[scur]) /\ NeedsMissingList(heap[scur], snow))
    /\ SchedBody

\* compute_missing(t) raises: `except Exception` of the loop ends the pass,
\* the tasks behind t in the list are not visited and nothing is saved
SchedTaskFails ==
    /\ spc = "body"
    /\ NoSession
    /\ Broken(heap[scur])
    /\ NeedsMissingList(heap[scur], snow)
    /\ spc' = "sleep"
    /\ squeue' = <<>>
    /\ scur' = 0
    /\ schanged' = FALSE
    /\ UNCHANGED <<now, heap, tbl, db, dirs, lastCleanup, snow, delivered,
                   remCount, dlCount, faults, exports>>

\* client.py run_forever, finally: scheduler_task.cancel() and gather: the
\* CancelledError is raised at the await the scheduler is suspended at
\* (it is no Exception, so the loop's handler does not catch it)
ConnectionLost ==
    /\ spc \in {"sleep", "rem_await", "dl_await"}
    /\ NoSession
    /\ faults < MaxFaults
    /\ faults' = faults + 1
    /\ UNCHANGED exports
    /\ spc' = "off"
    /\ squeue' = <<>>
    /\ scur' = 0
    /\ schanged' = FALSE
    /\ delivered' = FALSE
    /\ UNCHANGED <<now, heap, tbl, db, dirs, lastCleanup, snow, remCount,
                   dlCount>>

\* run_forever reconnects: asyncio.create_task(handin.scheduler_loop(api))
Reconnect ==
    /\ spc = "off"
    /\ NoSession
    /\ spc' = "sleep"
    /\ UNCHANGED <<now, heap, tbl, db, dirs, lastCleanup, squeue, scur, snow,
                   schanged, delivered, remCount, dlCount, faults, exports>>

\* ====================================================================
\* Part 2 (specification SpecSession): the submission conversation of
\* commands.py: BotState's pending entries of one user, the user's inbox
\* queue, the temporary files and the task archives.  Every handler runs
\* as one step.
\* ====================================================================
\* the user whose conversation is modelled: level 2, creator of the tasks
User == 10

\* file names are sequences of tokens: <<"x">> is x.doc, <<"x", "_2">> is
\* x_2.doc, <<"x", "zs">> is x-zs.doc
FileNames == {<<"x">>, <<"zs">>}
RosterNames == {"zs"}
PrivateTexts == {"Y", "n", "done", "0", "1", "zs"}
GroupTexts == {"0", "1", "/chandin"}
SessionInputs == {<<"hw1", <<>>, 3>>}

\* an absent entry of pending_handin_choose / pending_handin_overwrite
NoChoose == [mode |-> "none", task_ids |-> <<>>, group_id |-> 0]
NoOverwrite == [task_id |-> <<>>, path |-> <<>>]

\* (text or "").strip().lower()
Lower(t) == IF t = "Y" THEN "y" ELSE t
\* re.fullmatch(r"\d{1,3}", t) and int(t)
IsDigits(t) == t \in {"0", "1"}
DigitVal(t) == IF t = "0" THEN 0 ELSE 1
\* a match that no text passes
IsDone_Never(t) == FALSE
\* re.fullmatch(r"(?i)/?done", t)
IsDone(t) == t = "done"
\* t.lstrip("/").strip()
StripSlash(t) == IF t = "/chandin" THEN "chandin" ELSE t
\* the "_i" a name gets when it is taken
SuffixTok(i) == CASE i = 2 -> "_2" [] i = 3 -> "_3" [] i = 4 -> "_4" [] OTHER -> "_5"

\* find_roster_name_in_filename(name) is not empty
HasRosterName(name) == \E i \in 1..Len(name) : name[i] \in RosterNames

\* temporary files: <<path, content>>, a path is <<directory, name>>
PathFree(fs, p) == ~\E f \in fs : f[1] = p
Content(fs, p) == (CHOOSE f \in fs : f[1] = p)[2]
Unlink(fs, p) == {f \in fs : f[1] # p}

\* _unique_path, and the same search in _rename_pending_file_with_submitter
\* and for the zip of a batch: the name itself, else the first free name_i
UniquePath(dir, name, fs) ==
    IF PathFree(fs, <<dir, name>>) THEN <<dir, name>>
    ELSE LET i == CHOOSE i \in 2..5 :
                    /\ PathFree(fs, <<dir, Append(name, SuffixTok(i))>>)
                    /\ \A j \in 2..(i - 1) :
                           ~PathFree(fs, <<dir, Append(name, SuffixTok(j))>>)
         IN <<dir, Append(name, SuffixTok(i))>>

RECURSIVE KeySort(_)
\* list.sort(key=...): stable, on a sequence of <<key, value>>
KeySort(s) ==
    IF s = <<>> THEN <<>>
    ELSE LET i == CHOOSE i \in 1..Len(s) :
                    /\ \A j \in 1..Len(s) : s[j][1] >= s[i][1]
                    /\ \A j \in 1..(i - 1) : s[j][1] > s[i][1]
         IN <<s[i]>> \o KeySort(SubSeq(s, 1, i - 1) \o SubSeq(s, i + 1, Len(s)))

Values(s) == [i \in 1..Len(s) |-> s[i][2]]

\* list_active_tasks(): the active tasks in table order, sorted by deadline
ActiveTasks(h) ==
    LET a == SelectSeq(tbl, LAMBDA o : IsActive(h[o], now))
    IN Values(KeySort([i \in 1..Len(a) |-> <<h[a[i]].deadline_ts, a[i]>>]))

TaskIdsOf(h, objs) == [i \in 1..Len(objs) |-> h[objs[i]].task_id]

\* {"mode": "submit", "task_ids": [t.task_id for t in tasks]}
SubmitChoice(h) ==
    [mode |-> "submit", task_ids |-> TaskIdsOf(h, ActiveTasks(h)), group_id |-> 0]

\* handin._tasks.get(tid) on the heap h
LookupIn(h, tid) ==
    IF \E i \in 1..Len(tbl) : h[tbl[i]].task_id = tid
    THEN tbl[CHOOSE i \in 1..Len(tbl) : h[tbl[i]].task_id = tid]
    ELSE 0

RemoveAt(s, i) == SubSeq(s, 1, i - 1) \o SubSeq(s, i + 1, Len(s))

\* a clean-up that deletes nothing
UnlinkAll_None(fs, q) == fs

RECURSIVE UnlinkAll(_, _)
\* for it in q: Path(it["path"]).unlink(missing_ok=True)
UnlinkAll(fs, q) ==
    IF q = <<>> THEN fs ELSE UnlinkAll(Unlink(fs, q[1].path), Tail(q))

\* ---------------------------------------------------- the session state
\* the state a handler works on, as one record:
\*   q  pending_handin_files[User]      fs the temporary files on disk
\*   ar the archive: <<<<group, task name>>, file name, content>>
\*   wd, zn, ni  pending_handin_wait_done / _zip_name / _name_input
\*   ch pending_handin_choose[User]     ow pending_handin_overwrite[User]
\*   hp the task objects, doc the persisted document, dr the task directories
Cur ==
    [q |-> queue, fs |-> files, ar |-> archive, wd |-> waitDone,
     zn |-> zipName, ni |-> nameInput, ch |-> choose, ow |-> overwrite,
     hp |-> heap, doc |-> db, dr |-> dirs]

Apply(r) ==
    /\ queue' = r.q
    /\ files' = r.fs
    /\ archive' = r.ar
    /\ waitDone' = r.wd
    /\ zipName' = r.zn
    /\ nameInput' = r.ni
    /\ choose' = r.ch
    /\ overwrite' = r.ow
    /\ heap' = r.hp
    /\ db' = r.doc
    /\ dirs' = r.dr

\* a clearing that leaves the task choice behind
ClearFlow_KeepChoose(s) ==
    [s EXCEPT !.wd = FALSE, !.zn = FALSE, !.ni = FALSE]

\* wait_done, zip_name, name_input and choose are popped
ClearFlow(s) ==
    [s EXCEPT !.wd = FALSE, !.zn = FALSE, !.ni = FALSE, !.ch = NoChoose]

\* wait_done, zip_name and name_input are popped
ClearCollect(s) == [s EXCEPT !.wd = FALSE, !.zn = FALSE, !.ni = FALSE]

\* a move that replaces an archived file of the same name even without
\* the overwrite flag
MoveInboxToTask_NoExistsCheck(s, p, o, force) ==
    LET key == <<s.hp[o].group_id, s.hp[o].name>>
        s0 == [s EXCEPT !.dr = @ \cup {key}]
    IN IF PathFree(s.fs, p) THEN [code |-> "MISSING", s |-> s]
       ELSE [code |-> "OK",
             s |-> [s0 EXCEPT
                !.ar = {a \in @ : ~(a[1] = key /\ a[2] = p[2])}
                           \cup {<<key, p[2], Content(s.fs, p)>>},
                !.fs = Unlink(@, p)]]

\* HandinService.move_inbox_to_task(inbox_path, task, overwrite): the
\* result code and the state after it.  The archived name is the name of
\* the inbox path.
MoveInboxToTask(s, p, o, force) ==
    LET key == <<s.hp[o].group_id, s.hp[o].name>>
        s0 == [s EXCEPT !.dr = @ \cup {key}]
    IN IF PathFree(s.fs, p) THEN [code |-> "MISSING", s |-> s]
       ELSE IF (\E a \in s.ar : a[1] = key /\ a[2] = p[2]) /\ ~force
       THEN [code |-> "EXISTS", s |-> s0]
       ELSE [code |-> "OK",
             s |-> [s0 EXCEPT
                !.ar = {a \in @ : ~(a[1] = key /\ a[2] = p[2])}
                           \cup {<<key, p[2], Content(s.fs, p)>>},
                !.fs = Unlink(@, p)]]

\* list_submitted_files(task): the files in the directory of the task
ListSubmittedFiles(ar, t) == {a \in ar : a[1] = <<t.group_id, t.name>>}
\* ------------------------------------------------ _handle_private_file
\* an arrival that leaves the wait for the submitter name set when it
\* starts the batch
HandleFile_KeepNameInput(s, fname, c) ==
    LET p == UniquePath("inbox", fname, s.fs)
        s1 == [s EXCEPT !.fs = @ \cup {<<p, c>>},
                        !.q = Append(@, [path |-> p, name |-> fname])]
        tasks == ActiveTasks(s.hp)
    IN IF s.zn THEN s1
       ELSE IF s.ni
       THEN IF Len(s1.q) >= 2
            THEN IF tasks = <<>>
                 THEN [s1 EXCEPT !.ch = NoChoose]
                 ELSE [s1 EXCEPT !.wd = TRUE, !.zn = FALSE,
                                 !.ch = SubmitChoice(s.hp)]
            ELSE s1
       ELSE IF s.ch.mode = "submit"
       THEN IF Len(s1.q) >= 2
            THEN [s1 EXCEPT !.wd = TRUE, !.zn = FALSE]
            ELSE s1
       ELSE IF tasks = <<>> THEN s1
       ELSE LET s2 == ClearCollect(s1)
            IN IF Len(s1.q) = 1 /\ ~HasRosterName(fname)
               THEN [s2 EXCEPT !.ni = TRUE, !.ch = NoChoose]
               ELSE [s2 EXCEPT !.ch = SubmitChoice(s.hp)]

\* the file is downloaded to the inbox under a unique path and queued;
\* what is pending decides what the arrival means
HandleFile(s, fname, c) ==
    LET p == UniquePath("inbox", fname, s.fs)
        s1 == [s EXCEPT !.fs = @ \cup {<<p, c>>},
                        !.q = Append(@, [path |-> p, name |-> fname])]
        tasks == ActiveTasks(s.hp)
    IN IF s.zn THEN s1
       ELSE IF s.ni
       THEN IF Len(s1.q) >= 2
            THEN IF tasks = <<>>
                 THEN [s1 EXCEPT !.ni = FALSE, !.ch = NoChoose]
                 ELSE [s1 EXCEPT !.ni = FALSE, !.wd = TRUE, !.zn = FALSE,
                                 !.ch = SubmitChoice(s.hp)]
            ELSE s1
       ELSE IF s.ch.mode = "submit"
       THEN IF Len(s1.q) >= 2
            THEN [s1 EXCEPT !.wd = TRUE, !.zn = FALSE]
            ELSE s1
       ELSE IF tasks = <<>> THEN s1
       ELSE LET s2 == ClearCollect(s1)
            IN IF Len(s1.q) = 1 /\ ~HasRosterName(fname)
               THEN [s2 EXCEPT !.ni = TRUE, !.ch = NoChoose]
               ELSE [s2 EXCEPT !.ch = SubmitChoice(s.hp)]

\* -------------------------------------- _handle_private_overwrite_yesno
\* the queue item the confirmation is about: the one with the recorded
\* path, else the head
OverwriteItem(s) ==
    IF \E i \in 1..Len(s.q) : s.q[i].path = s.ow.path
    THEN CHOOSE i \in 1..Len(s.q) :
            /\ s.q[i].path = s.ow.path
            /\ \A j \in 1..(i - 1) : s.q[j].path # s.ow.path
    ELSE 1

\* "if state.pending_handin_files.get(...)" at the end of the handler
OverwriteTail(s) ==
    IF s.q # <<>>
    THEN IF ActiveTasks(s.hp) # <<>>
         THEN [s EXCEPT !.ni = FALSE, !.ch = SubmitChoice(s.hp)]
         ELSE s
    ELSE ClearCollect(s)

\* a confirmation that only looks the task up and does not ask whether it
\* is still active
HandleOverwrite_TaskKnownOnly(s, t) ==
    IF Lower(t) \notin {"y", "yes", "n", "no"} THEN s
    ELSE IF s.q = <<>> THEN [ClearCollect(s) EXCEPT !.ow = NoOverwrite]
    ELSE LET i == OverwriteItem(s)
             o == LookupIn(s.hp, s.ow.task_id)
             dropped == [s EXCEPT !.fs = Unlink(@, s.q[i].path),
                                  !.q = RemoveAt(@, i),
                                  !.ow = NoOverwrite]
         IN IF o = 0
            THEN [dropped EXCEPT !.ni = FALSE]
            ELSE IF Lower(t) \in {"n", "no"}
            THEN OverwriteTail(dropped)
            ELSE LET r == MoveInboxToTask(s, s.q[i].path, o, TRUE)
                 IN IF r.code = "OK"
                    THEN OverwriteTail([r.s EXCEPT !.q = RemoveAt(@, i),
                                                   !.ow = NoOverwrite])
                    ELSE OverwriteTail([r.s EXCEPT !.ow = NoOverwrite])

\* _handle_private_overwrite_yesno
HandleOverwrite(s, t) ==
    IF Lower(t) \notin {"y", "yes", "n", "no"} THEN s
    ELSE IF s.q = <<>> THEN [ClearCollect(s) EXCEPT !.ow = NoOverwrite]
    ELSE LET i == OverwriteItem(s)
             o == LookupIn(s.hp, s.ow.task_id)
             dropped == [s EXCEPT !.fs = Unlink(@, s.q[i].path),
                                  !.q = RemoveAt(@, i),
                                  !.ow = NoOverwrite]
         IN IF o = 0 \/ ~IsActive(s.hp[o], now)
            THEN [dropped EXCEPT !.ni = FALSE]
            ELSE IF Lower(t) \in {"n", "no"}
            THEN OverwriteTail(dropped)
            ELSE LET r == MoveInboxToTask(s, s.q[i].path, o, TRUE)
                 IN IF r.code = "OK"
                    THEN OverwriteTail([r.s EXCEPT !.q = RemoveAt(@, i),
                                                   !.ow = NoOverwrite])
                    ELSE OverwriteTail([r.s EXCEPT !.ow = NoOverwrite])

\* ------------------------------------------- _handle_private_done_batch
\* a done that starts the zip naming without leaving the wait for done
HandleDone_KeepWaitDone(s) ==
    IF s.ow # NoOverwrite THEN s
    ELSE IF s.q = <<>> THEN ClearFlow(s)
    ELSE IF Len(s.q) = 1
    THEN LET s1 == [s EXCEPT !.wd = FALSE, !.zn = FALSE]
         IN IF ActiveTasks(s.hp) = <<>>
            THEN [s1 EXCEPT !.ni = FALSE, !.ch = NoChoose]
            ELSE IF ~HasRosterName(s.q[1].name)
            THEN [s1 EXCEPT !.ni = TRUE, !.ch = NoChoose]
            ELSE [s1 EXCEPT !.ni = FALSE, !.ch = SubmitChoice(s.hp)]
    ELSE [s EXCEPT !.ni = FALSE, !.zn = TRUE]

HandleDone(s) ==
    IF s.ow # NoOverwrite THEN s
    ELSE IF s.q = <<>> THEN ClearFlow(s)
    ELSE IF Len(s.q) = 1
    THEN LET s1 == [s EXCEPT !.wd = FALSE, !.zn = FALSE]
         IN IF ActiveTasks(s.hp) = <<>>
            THEN [s1 EXCEPT !.ni = FALSE, !.ch = NoChoose]
            ELSE IF ~HasRosterName(s.q[1].name)
            THEN [s1 EXCEPT !.ni = TRUE, !.ch = NoChoose]
            ELSE [s1 EXCEPT !.ni = FALSE, !.ch = SubmitChoice(s.hp)]
    ELSE [s EXCEPT !.wd = FALSE, !.ni = FALSE, !.zn = TRUE]

\* ---------------------------------------- _handle_private_zip_name_input
RECURSIVE Packed(_, _)
\* _zip_pending_files: the contents of the queued files that exist, in
\* queue order
Packed(fs, q) ==
    IF q = <<>> THEN <<>>
    ELSE (IF PathFree(fs, q[1].path) THEN <<>> ELSE Content(fs, q[1].path))
             \o Packed(fs, Tail(q))

HandleZipName(s, t) ==
    IF s.ow # NoOverwrite THEN s
    ELSE IF t \in {"0", "/cancel"}
    THEN ClearFlow([s EXCEPT !.fs = UnlinkAll(@, s.q), !.q = <<>>])
    ELSE IF s.q = <<>> THEN ClearFlow(s)
    ELSE LET out == UniquePath("batch", <<StripSlash(t)>>, s.fs)
             packed == Packed(s.fs, s.q)
         IN IF packed = <<>> THEN s
            ELSE LET s1 == ClearCollect([s EXCEPT
                              !.fs = UnlinkAll(@, s.q) \cup {<<out, packed>>},
                              !.q = <<[path |-> out, name |-> out[2]]>>])
                 IN IF ActiveTasks(s.hp) = <<>>
                    THEN [s1 EXCEPT !.ch = NoChoose]
                    ELSE [s1 EXCEPT !.ch = SubmitChoice(s.hp)]

\* --------------------------------------------- _handle_private_name_input
\* _rename_pending_file_with_submitter on the head of the queue: the
\* submitter is appended to the display name, the file is renamed
RenameHead(s, submitter) ==
    LET src == s.q[1].path
        dst == UniquePath(src[1], Append(s.q[1].name, submitter), s.fs)
    IN [s EXCEPT !.fs = Unlink(@, src) \cup {<<dst, Content(s.fs, src)>>},
                 !.q = <<[path |-> dst, name |-> dst[2]]>> \o Tail(@)]

HandleNameInput(s, t) ==
    IF s.ow # NoOverwrite THEN s
    ELSE IF s.q = <<>> THEN ClearFlow(s)
    ELSE IF Len(s.q) >= 2
    THEN IF ActiveTasks(s.hp) = <<>>
         THEN [s EXCEPT !.ni = FALSE, !.ch = NoChoose]
         ELSE [s EXCEPT !.ni = FALSE, !.wd = TRUE, !.zn = FALSE,
                        !.ch = SubmitChoice(s.hp)]
    ELSE IF t # "0" /\ (IsDigits(StripSlash(t)) \/ PathFree(s.fs, s.q[1].path))
    THEN s
    ELSE LET s0 == IF t = "0" THEN s ELSE RenameHead(s, StripSlash(t))
             s1 == ClearCollect(s0)
         IN IF ActiveTasks(s.hp) = <<>>
            THEN [s1 EXCEPT !.ch = NoChoose]
            ELSE [s1 EXCEPT !.ch = SubmitChoice(s.hp)]

\* ------------------------------------------ _handle_private_number_choice
HandleNumberSubmit(s, c) ==
    IF s.ow # NoOverwrite THEN s
    ELSE IF s.q = <<>> THEN ClearFlow(s)
    ELSE IF s.wd
    THEN IF c = 0
         THEN ClearFlow([s EXCEPT !.fs = UnlinkAll(@, s.q), !.q = <<>>])
         ELSE s
    ELSE IF c = 0
    THEN ClearFlow([s EXCEPT !.fs = Unlink(@, s.q[1].path), !.q = Tail(@)])
    ELSE IF c < 1 \/ c > Len(s.ch.task_ids) THEN s
    ELSE LET tid == s.ch.task_ids[c]
             o == LookupIn(s.hp, tid)
         IN IF o = 0 \/ ~IsActive(s.hp[o], now)
            THEN [s EXCEPT !.ch = NoChoose]
            ELSE LET r == MoveInboxToTask(s, s.q[1].path, o, FALSE)
                 IN IF r.code = "EXISTS"
                    THEN [r.s EXCEPT
                            !.ow = [task_id |-> tid, path |-> s.q[1].path],
                            !.ch = NoChoose]
                    ELSE IF r.code # "OK" THEN r.s
                    ELSE IF Tail(s.q) # <<>>
                    THEN [r.s EXCEPT !.q = Tail(@), !.ni = FALSE,
                                     !.ch = SubmitChoice(s.hp)]
                    ELSE ClearFlow([r.s EXCEPT !.q = Tail(@)])

HandleNumber(s, t) == HandleNumberSubmit(s, DigitVal(t))

\* ------------------------------------------- _handle_cancel_number_choice
\* HandinService.cancel_task on the heap h: the heap after it
CancelIn(h, o, by) ==
    IF h[o].closed THEN h
    ELSE [h EXCEPT ![o].closed = TRUE, ![o].deadline_sent = TRUE,
                   ![o].cancelled = TRUE, ![o].cancelled_ts = now,
                   ![o].cancelled_by = by]

HandleCancelChoice(s, t) ==
    LET c == DigitVal(t)
    IN IF c = 0 THEN [s EXCEPT !.ch = NoChoose]
       ELSE IF c < 1 \/ c > Len(s.ch.task_ids) THEN s
       ELSE LET o == LookupIn(s.hp, s.ch.task_ids[c])
            IN IF o = 0 \/ ~IsActive(s.hp[o], now)
               THEN [s EXCEPT !.ch = NoChoose]
               ELSE IF s.hp[o].creator_id # User
               THEN [s EXCEPT !.ch = NoChoose]
               ELSE LET h2 == CancelIn(s.hp, o, User)
                    IN [s EXCEPT !.hp = h2, !.doc = Snapshot(h2, tbl),
                                 !.ch = NoChoose]

\* ------------------------------------------------- the command parser
\* /chandin lists the active tasks (of the group, or of the caller) and
\* waits for a number; any other text changes nothing here
HandleCommand(s, t, scene) ==
    IF t = "/chandin" /\ ActiveTasks(s.hp) # <<>>
    THEN [s EXCEPT !.ch = [mode |-> "cancel",
                           task_ids |-> TaskIdsOf(s.hp, ActiveTasks(s.hp)),
                           group_id |-> IF scene = "group" THEN 1 ELSE 0]]
    ELSE s

\* ------------------------------------------------------------- dispatch
\* the handlers dispatch tries, in its order, for a text of a private
\* conversation and for a text of a group conversation
PrivateChain_NumberFirst ==
    <<"number", "cancel", "overwrite", "done", "zip", "name">>

PrivateChain == <<"overwrite", "done", "zip", "name", "number", "cancel">>

GroupChain == <<"cancel">>

\* handler h returns True for the text t (it has handled the event)
Handles(h, s, t) ==
    CASE h = "overwrite" -> s.ow # NoOverwrite
      [] h = "done" -> IsDone(t) /\ s.wd
      [] h = "zip" -> s.zn /\ t # ""
      [] h = "name" -> s.ni /\ t # ""
      [] h = "number" -> IsDigits(t) /\ s.ch.mode = "submit"
      [] h = "cancel" -> IsDigits(t) /\ s.ch.mode = "cancel"
      [] OTHER -> FALSE

\* the state handler h leaves
Handle(h, s, t) ==
    CASE h = "overwrite" -> HandleOverwrite(s, t)
      [] h = "done" -> HandleDone(s)
      [] h = "zip" -> HandleZipName(s, t)
      [] h = "name" -> HandleNameInput(s, t)
      [] h = "number" -> HandleNumber(s, t)
      [] h = "cancel" -> HandleCancelChoice(s, t)
      [] OTHER -> s

\* the first handler of the chain that returns True; "parser" when none
\* does and the text reaches the command parser
FirstHandler(chain, s, t) ==
    IF \E i \in 1..Len(chain) : Handles(chain[i], s, t)
    THEN chain[CHOOSE i \in 1..Len(chain) :
                  /\ Handles(chain[i], s, t)
                  /\ \A j \in 1..(i - 1) : ~Handles(chain[j], s, t)]
    ELSE "parser"

\* the handler that takes the text t sent in the conversation `scene`
Consumer(s, scene, t) ==
    FirstHandler(IF scene = "private" THEN PrivateChain ELSE GroupChain, s, t)

\* ------------------------------------------- the replies of a handler
\* the replies of the end of _handle_private_overwrite_yesno: the task
\* list is sent when files remain and a task is active
OverwriteTailReplies(s) ==
    IF s.q # <<>> /\ ActiveTasks(s.hp) # <<>> THEN 1 ELSE 0

\* the number of reply(...) calls of _handle_private_overwrite_yesno
OverwriteReplies(s, t) ==
    IF Lower(t) \notin {"y", "yes", "n", "no"} THEN 1
    ELSE IF s.q = <<>> THEN 1
    ELSE LET i == OverwriteItem(s)
             o == LookupIn(s.hp, s.ow.task_id)
             dropped == [s EXCEPT !.fs = Unlink(@, s.q[i].path),
                                  !.q = RemoveAt(@, i),
                                  !.ow = NoOverwrite]
         IN IF o = 0 \/ ~IsActive(s.hp[o], now) THEN 1
            ELSE IF Lower(t) \in {"n", "no"}
            THEN 1 + OverwriteTailReplies(dropped)
            ELSE LET r == MoveInboxToTask(s, s.q[i].path, o, TRUE)
                 IN IF r.code = "OK"
                    THEN 1 + OverwriteTailReplies([r.s EXCEPT !.q = RemoveAt(@, i)])
                    ELSE 1 + OverwriteTailReplies(r.s)

\* the number of reply(...) calls of _handle_private_number_choice in
\* submit mode: the archive message, then the list of what remains
NumberSubmitReplies(s, c) ==
    IF s.ow # NoOverwrite \/ s.q = <<>> \/ s.wd \/ c = 0 THEN 1
    ELSE IF c < 1 \/ c > Len(s.ch.task_ids) THEN 1
    ELSE LET o == LookupIn(s.hp, s.ch.task_ids[c])
         IN IF o = 0 \/ ~IsActive(s.hp[o], now) THEN 1
            ELSE IF MoveInboxToTask(s, s.q[1].path, o, FALSE).code # "OK" THEN 1
            ELSE IF Tail(s.q) # <<>> THEN 2
            ELSE 1

\* the number of reply(...) calls handler h makes for the text t; the
\* done, zip name, name input and cancel handlers reply once on every
\* branch
Replies(h, s, t) ==
    CASE h = "overwrite" -> OverwriteReplies(s, t)
      [] h = "number" -> NumberSubmitReplies(s, DigitVal(t))
      [] OTHER -> 1

\* the state dispatch leaves for the text t
TextResult(s, scene, t) ==
    IF Consumer(s, scene, t) = "parser" THEN HandleCommand(s, t, scene)
    ELSE Handle(Consumer(s, scene, t), s, t)

\* dispatch of a text message of User
DispatchText(scene, t) ==
    /\ SchedSuspended
    /\ Apply(TextResult(Cur, scene, t))
    /\ UNCHANGED <<now, tbl, lastCleanup, schedVars, remCount, dlCount,
                   faults, exports, nfiles, up, cl, cm, xn>>

\* dispatch of a file User sends in the private conversation; the download
\* succeeds and gives the file a content of its own
DispatchFile(fname) ==
    /\ SchedSuspended
    /\ nfiles < MaxFiles
    /\ nfiles' = nfiles + 1
    /\ Apply(HandleFile(Cur, fname, <<nfiles + 1>>))
    /\ UNCHANGED <<now, tbl, lastCleanup, schedVars, remCount, dlCount,
                   faults, exports, up, cl, cm, xn>>

\* ====================================================================
\* Part 3: sending a file (commands.py, _send_file and the /get loop)
\* --------------------------------------------------------------------
\* `up` is the transfer of one file of a /get:
\*   pc     idle, first (before the first upload on the channel), retry
\*          (in _retry, after the sleep of delay idx), ret (_send_file has
\*          returned), replied
\*   scene, arch   the conversation, and whether the file is an archive
\*   phase  source: the file itself, zip: the file wrapped in a zip
\*   chan   the channel of the upload: group or private
\*   d, gd  the detail of the last failure, and of the failed group channel
\*   log    every upload made: <<phase, channel, response>>
\*   ret    (sent, detail) as returned; sent is True, False or None
\*   ok_list, pending_list, bad_list, reply   what the caller tells
\* Texts are sequences of tokens; "in" on texts is token membership.
\* ====================================================================
SEND_RETRY_DELAYS == <<"0.8", "1.8">>
AUTO_ZIP_FALLBACK == TRUE

\* what an upload action comes back with: none is no confirmable reply
Responses == {"none", "ok", "rich", "enoent", "fail"}
Scenes == {"group", "private"}
ZipOutcomes == {"staged", "stagefail", "error"}

InText(tok, text) == \E i \in 1..Len(text) : text[i] = tok

\* an upload that is taken for confirmed whatever comes back
Unconfirmed_Never(resp) == FALSE
\* resp is None
Unconfirmed(resp) == resp = "none"
\* _ok(resp)
Ok(resp) == resp = "ok"
\* _detail(resp): "retcode=.. <wording>"
Detail(resp) ==
    CASE resp = "rich" -> <<"retcode=1200", "rich media transfer failed">>
      [] resp = "enoent" -> <<"retcode=1200", "enoent">>
      [] resp = "fail" -> <<"retcode=100">>
      [] OTHER -> <<"retcode=0">>
IsRichFail(d) == InText("rich media transfer failed", d)
IsMissingFileFail(d) == InText("enoent", d)
\* a classification that takes every failure for transient
IsRetryableFail_Any(d) == TRUE
\* _is_retryable_fail
IsRetryableFail(d) == IsRichFail(d) \/ IsMissingFileFail(d)

\* a retry that succeeds without saying so
RetriedNote_Silent == <<>>
\* the note of a success inside _retry
RetriedNote == <<"retried ok">>

\* a failure text that keeps the private detail only
BothFailedDetail_PrivateOnly(d, dp) ==
    <<"private failed too">> \o dp
\* the text returned when the group upload and the private one failed
BothFailedDetail(d, dp) ==
    (IF d # <<>> THEN d ELSE <<"group failed">>)
        \o <<"private failed too">> \o dp
        \o (IF IsRichFail(d) \/ IsRichFail(dp) THEN <<"rich hint">> ELSE <<>>)

\* the channel _send_file starts with
PrimaryChannel(scene) == IF scene = "group" THEN "group" ELSE "private"

\* _send_file returns (sent, detail)
Return(u, sent, detail) ==
    [u EXCEPT !.pc = "ret", !.ret = [sent |-> sent, detail |-> detail]]

\* _try_*_send came back (True, note)
ChannelSent(u, note) ==
    IF u.chan = "private" /\ u.scene = "group"
    THEN Return(u, "True", <<"sent privately instead">> \o note)
    ELSE Return(u, "True", note)

\* _try_*_send came back (None, "")
ChannelUnconfirmed(u) ==
    IF u.chan = "private" /\ u.scene = "group"
    THEN Return(u, "None", <<"group failed, tried private">>)
    ELSE Return(u, "None", <<>>)

\* _try_*_send came back (False, d): a failed group upload is followed by
\* the private one, a failed private upload ends the sending
ChannelFailed(u, d) ==
    IF u.chan = "group"
    THEN [u EXCEPT !.chan = "private", !.pc = "first", !.idx = 0,
                   !.d = <<>>, !.gd = d]
    ELSE IF u.scene = "group"
    THEN Return(u, "False", BothFailedDetail(u.gd, d))
    ELSE Return(u, "False", d)

Logged(u, resp) == [u EXCEPT !.log = Append(@, <<u.phase, u.chan, resp>>)]

\* a call of _send_file for the phase ph
StartSend(u, ph) ==
    [u EXCEPT !.pc = "first", !.phase = ph, !.chan = PrimaryChannel(u.scene),
              !.idx = 0, !.d = <<>>, !.gd = <<>>,
              !.ret = [sent |-> "unset", detail |-> <<>>]]

\* a step of the transfer leaves everything else alone
NoStore ==
    UNCHANGED <<now, heap, tbl, db, dirs, lastCleanup, schedVars, remCount,
                dlCount, faults, exports, queue, files, archive, waitDone,
                zipName, nameInput, choose, overwrite, nfiles, cl, cm, xn>>

\* /get of one file in the conversation `scene`
GetCommand(scene, arch) ==
    /\ up.pc = "idle"
    /\ NoStore
    /\ up' = StartSend([UpIdle EXCEPT !.scene = scene, !.arch = arch],
                       "source")

\* _try_group_send / _try_private_send: the first upload on the channel
FirstAttempt(resp) ==
    /\ up.pc = "first"
    /\ NoStore
    /\ LET u == Logged(up, resp)
           d == Detail(resp)
       IN up' = IF Unconfirmed(resp) THEN ChannelUnconfirmed(u)
                ELSE IF Ok(resp) THEN ChannelSent(u, <<>>)
                ELSE IF ~IsRetryableFail(d) \/ SEND_RETRY_DELAYS = <<>>
                THEN ChannelFailed(u, d)
                ELSE [u EXCEPT !.pc = "retry", !.idx = 1, !.d = d]

\* _retry: the upload after the sleep of delay number up.idx
RetryAttempt(resp) ==
    /\ up.pc = "retry"
    /\ NoStore
    /\ LET u == Logged(up, resp)
           d == Detail(resp)
       IN up' = IF Unconfirmed(resp) THEN ChannelUnconfirmed(u)
                ELSE IF Ok(resp) THEN ChannelSent(u, RetriedNote)
                ELSE IF ~IsRetryableFail(d)
                        \/ up.idx = Len(SEND_RETRY_DELAYS)
                THEN ChannelFailed(u, d)
                ELSE [u EXCEPT !.idx = @ + 1, !.d = d]

\* the reply that ends the /get: its sections
Replied(u) ==
    [u EXCEPT !.pc = "replied",
              !.reply = (IF u.ok_list # <<>> THEN {"sent"} ELSE {})
                  \cup (IF u.pending_list # <<>> THEN {"unconfirmed"} ELSE {})
                  \cup (IF u.bad_list # <<>> THEN {"failed"} ELSE {})]

\* the /get loop takes the result of _send_file: a sent file and an
\* unconfirmed one are listed; a failed source file that is no archive is
\* wrapped in a zip and sent once more; a failure is listed
TakeResult(zip) ==
    /\ up.pc = "ret"
    /\ NoStore
    /\ LET r == up.ret
           mark == IF up.phase = "zip" THEN <<"->zip">> ELSE <<>>
       IN up' =
          IF r.sent = "True"
          THEN Replied([up EXCEPT !.ok_list = Append(@, mark \o r.detail)])
          ELSE IF r.sent = "None"
          THEN Replied([up EXCEPT
                          !.pending_list = Append(@, mark \o r.detail)])
          ELSE IF up.phase = "zip"
          THEN Replied([up EXCEPT
                  !.bad_list = Append(@, <<"zip send failed">> \o r.detail)])
          ELSE IF AUTO_ZIP_FALLBACK /\ ~up.arch /\ zip = "staged"
          THEN StartSend(up, "zip")
          ELSE IF AUTO_ZIP_FALLBACK /\ ~up.arch /\ zip = "stagefail"
          THEN Replied([up EXCEPT
                  !.bad_list = Append(@, <<"zip staging failed">>)])
          ELSE Replied([up EXCEPT !.bad_list = Append(@, r.detail)])

\* ====================================================================
\* Part 4 (specification SpecClient): client.py, run_forever.  One
\* connection at a time; every event becomes a task that passes the
\* connection's semaphore, then the lock of its conversation, then runs
\* dispatch.  asyncio runs one task at a time and starts tasks in the
\* order they were created; Lock and Semaphore wake their waiters first
\* come first served and a release hands the lock or the slot to the
\* first waiter that is not cancelled (CPython 3.11 and later).
\*   task states: new (created, first step not run), sem (waiting for a
\*   slot), lock (holding a slot, waiting for the conversation lock), run
\*   (inside dispatch), done, cancelled; creq: cancel() was called and the
\*   CancelledError is not yet delivered.
\* ====================================================================
Terminal == {"done", "cancelled"}

\* inflight: the tasks of this connection that are not done
Inflight(c) ==
    {i \in 1..Len(c.tasks) : c.tasks[i].gen = c.gen /\ c.tasks[i].st \notin Terminal}

\* dispatch_sem._value: the slots of this connection's semaphore not held
Value(c) ==
    MAX_DISPATCH_CONCURRENCY
      - Cardinality({i \in 1..Len(c.tasks) :
                        c.tasks[i].gen = c.gen /\ c.tasks[i].st \in {"lock", "run"}})

\* the waiters whose future is not cancelled
Live(c, q) == SelectSeq(q, LAMBDA i : ~c.tasks[i].creq)

Without(q, i) == SelectSeq(q, LAMBDA j : j # i)

\* a lock that every task can take at once
LockFree_Always(c, k) == TRUE
\* asyncio.Lock.acquire returns at once: the conversation's lock of this
\* connection is not held and nobody waits for it
LockFree(c, k) ==
    /\ ~\E i \in 1..Len(c.tasks) :
           c.tasks[i].gen = c.gen /\ c.tasks[i].key = k /\ c.tasks[i].st = "run"
    /\ Live(c, c.lockq[k]) = <<>>

\* asyncio.Semaphore.acquire returns at once (not locked())
SemFree(c) == Value(c) > 0 /\ Live(c, c.semq) = <<>>

\* async with lock: task i, holding a slot, reaches its conversation's lock
EnterLock(c, i) ==
    LET k == c.tasks[i].key
    IN IF LockFree(c, k)
       THEN [c EXCEPT !.tasks[i].st = "run"]
       ELSE [c EXCEPT !.tasks[i].st = "lock", !.lockq[k] = Append(@, i)]

\* async with dispatch_sem: task i reaches the semaphore
EnterSem(c, i) ==
    IF SemFree(c)
    THEN EnterLock(c, i)
    ELSE [c EXCEPT !.tasks[i].st = "sem", !.semq = Append(@, i)]

\* lock.release(): the first waiter that is not cancelled gets the lock
ReleaseLock(c, k) ==
    LET q == Live(c, c.lockq[k])
    IN IF q = <<>>
       THEN c
       ELSE [c EXCEPT !.tasks[q[1]].st = "run", !.lockq[k] = Without(@, q[1])]

\* dispatch_sem.release(): the first waiter that is not cancelled gets the
\* slot and goes on to its conversation's lock
ReleaseSem(c) ==
    LET q == Live(c, c.semq)
    IN IF q = <<>>
       THEN c
       ELSE EnterLock([c EXCEPT !.semq = Without(@, q[1])], q[1])

\* leaving both `async with` blocks; the objects of an earlier connection
\* have no waiters left in this connection's queues
Leave(c, i) ==
    IF c.tasks[i].gen = c.gen
    THEN ReleaseSem(ReleaseLock(c, c.tasks[i].key))
    ELSE c

\* a reconnect that does not wait for the cancelled scheduler
Gathered_NoWait(c) == TRUE
\* await asyncio.gather(cleanup_task, scheduler_task, return_exceptions=True)
\* returns: the scheduler task of this connection is done
Gathered(c) == c.sched[c.gen] = "done"

\* everything but the client
OnlyClient ==
    UNCHANGED <<now, heap, tbl, db, dirs, lastCleanup, schedVars, remCount,
                dlCount, faults, exports, queue, files, archive, waitDone,
                zipName, nameInput, choose, overwrite, nfiles, up, cm, xn>>

\* websockets.connect succeeds: new semaphore, locks and inflight set, and
\* create_task(handin.scheduler_loop(api))
Connect ==
    /\ cl.pc = "down"
    /\ cl.gen < MaxConnections
    /\ OnlyClient
    /\ cl' = [cl EXCEPT !.pc = "connected", !.gen = @ + 1,
                        !.sched = Append(@, "run"),
                        !.semq = <<>>,
                        !.lockq = [k \in ConvKeys |-> <<>>],
                        !.pending = {}]

\* async for message in ws: an event of conversation k arrives and
\* create_task(_handle_one_event(...)) is added to inflight
Event(k) ==
    /\ cl.pc = "connected"
    /\ Len(cl.tasks) < MaxEvents
    /\ OnlyClient
    /\ cl' = [cl EXCEPT !.tasks =
                 Append(@, [key |-> k, gen |-> cl.gen, st |-> "new", creq |-> FALSE])]

\* the first step of the oldest task that has not started: up to the first
\* await that suspends
TaskStart(i) ==
    /\ i \in 1..Len(cl.tasks)
    /\ cl.tasks[i].st = "new"
    /\ ~cl.tasks[i].creq
    /\ \A j \in 1..(i - 1) : cl.tasks[j].st # "new"
    /\ OnlyClient
    /\ cl' = EnterSem(cl, i)

\* dispatch returns, or raises an Exception that _handle_one_event logs
DispatchEnds(i) ==
    /\ i \in 1..Len(cl.tasks)
    /\ cl.tasks[i].st = "run"
    /\ ~cl.tasks[i].creq
    /\ OnlyClient
    /\ cl' = Leave([cl EXCEPT !.tasks[i].st = "done"], i)

\* the CancelledError reaches task i at the await it is suspended at; no
\* handler of the program catches it, the `async with` blocks are left
TaskCancelled(i) ==
    /\ i \in 1..Len(cl.tasks)
    /\ cl.tasks[i].creq
    /\ cl.tasks[i].st \notin Terminal
    /\ OnlyClient
    /\ LET st == cl.tasks[i].st
           k == cl.tasks[i].key
           c1 == [cl EXCEPT !.tasks[i].st = "cancelled",
                            !.semq = Without(@, i),
                            !.lockq[k] = Without(@, i)]
       IN cl' = CASE st = "run" -> Leave(c1, i)
                  [] st = "lock" -> IF c1.tasks[i].gen = c1.gen THEN ReleaseSem(c1) ELSE c1
                  [] OTHER -> c1

\* the event loop ends (connection closed, or an exception in the loop):
\* finally: scheduler_task.cancel()
ConnectionClosed ==
    /\ cl.pc = "connected"
    /\ OnlyClient
    /\ cl' = [cl EXCEPT !.pc = "gather", !.sched[cl.gen] = "cancelling"]

\* scheduler_loop gets the CancelledError at its await (`except Exception`
\* does not catch it) and the task is done
SchedulerExits(g) ==
    /\ g \in 1..Len(cl.sched)
    /\ cl.sched[g] = "cancelling"
    /\ OnlyClient
    /\ cl' = [cl EXCEPT !.sched[g] = "done"]

\* the gather returns; pending = list(inflight); asyncio.wait(pending, 2.0)
SchedulerGathered ==
    /\ cl.pc = "gather"
    /\ Gathered(cl)
    /\ OnlyClient
    /\ cl' = [cl EXCEPT !.pending = Inflight(cl),
                        !.pc = IF Inflight(cl) = {} THEN "down" ELSE "wait"]

\* asyncio.wait returns, all done or after 2 s: cancel() for every task
\* that is still waiting, then gather them
GraceOver ==
    /\ cl.pc = "wait"
    /\ OnlyClient
    /\ LET waiting == cl.pending \cap Inflight(cl)
       IN cl' = [cl EXCEPT
                   !.tasks = [i \in 1..Len(cl.tasks) |->
                                 IF i \in waiting
                                 THEN [cl.tasks[i] EXCEPT !.creq = TRUE]
                                 ELSE cl.tasks[i]],
                   !.pending = waiting,
                   !.pc = IF waiting = {} THEN "down" ELSE "reap"]

\* await asyncio.gather(*waiting, return_exceptions=True) returns; the
\* `async with websockets.connect` block is left and the loop goes round
Reaped ==
    /\ cl.pc = "reap"
    /\ \A i \in cl.pending : cl.tasks[i].st \in Terminal
    /\ OnlyClient
    /\ cl' = [cl EXCEPT !.pc = "down", !.pending = {}]

\* ====================================================================
\* Part 5 (specification SpecCancel): cancelling a task, by any member.
\* /chandin in a group lists the group's active tasks to every caller of
\* level 2 or more; the number the caller answers with is resolved by
\* _handle_cancel_number_choice, which calls HandinService.cancel_task.
\* ====================================================================
\* the callers: the creator of the tasks, another member of level 2, and
\* an administrator (ADMIN_USERS: level 3)
CancelActors ==
    { [id |-> 10, level |-> 2], [id |-> 11, level |-> 2], [id |-> 12, level |-> 3] }

\* HandinService.cancel_task(tid, by) on the heap h: the returned error (or
\* Ok), the heap after it and whether _save was called
CancelTaskResult(h, tid, by) ==
    LET o == LookupIn(h, tid)
    IN IF o = 0 THEN [code |-> "NotFound", hp |-> h, saved |-> FALSE]
       ELSE IF h[o].closed THEN [code |-> "AlreadyClosed", hp |-> h, saved |-> FALSE]
       ELSE [code |-> "Ok", hp |-> CancelIn(h, o, by), saved |-> TRUE]

\* a permission test that lets everybody through
Permitted_Anyone(t, by, level) == TRUE
\* not (ctx.level < 3 and int(task.creator_id) != int(ctx.user_id))
Permitted(t, by, level) == level >= 3 \/ t.creator_id = by

\* _handle_cancel_number_choice from the lookup of the chosen id on: the
\* answer "the task does not exist or has ended" (Ended), the answer "no
\* permission" (Forbidden), or what cancel_task returns
CancelChoiceResult(h, tid, by, level) ==
    LET o == LookupIn(h, tid)
    IN IF o = 0 \/ ~IsActive(h[o], now)
       THEN [code |-> "Ended", hp |-> h, saved |-> FALSE]
       ELSE IF ~Permitted(h[o], by, level)
       THEN [code |-> "Forbidden", hp |-> h, saved |-> FALSE]
       ELSE CancelTaskResult(h, tid, by)

\* a caller answers a cancel list with the number of task tid; the pending
\* choice of the caller is dropped on every branch
CancelChoice(tid, a) ==
    /\ SchedSuspended
    /\ LET r == CancelChoiceResult(heap, tid, a.id, a.level)
       IN /\ heap' = r.hp
          /\ db' = IF r.saved THEN Snapshot(r.hp, tbl) ELSE db
    /\ choose' = IF a.id = User THEN NoChoose ELSE choose
    /\ UNCHANGED <<now, tbl, dirs, lastCleanup, schedVars, remCount, dlCount,
                   faults, exports, queue, files, archive, waitDone, zipName,
                   nameInput, overwrite, nfiles, up, cl, cm, xn>>

\* ====================================================================
\* Part 6 (specification SpecRoster): HandinService.compute_missing and
\* the file-name matchers it uses.  A file name is a sequence of tokens
\* (its stem cut at the separators); "." in front marks a hidden file and
\* ".part" at the end a partial download.  Student ids are the tokens
\* matched by [Uu]\d{8,12}; the roster's names are zs, ls and zsf, and zs
\* is a substring of zsf.
\* ====================================================================
\* (student id, name) pairs as load_roster returns them: id upper-cased,
\* either part may be empty, never both
RosterEntries == { <<"U1", "zs">>, <<"U2", "ls">>, <<"", "zsf">>, <<"U3", "">> }

\* the rosters compute_missing is called with: every choice of entries in
\* spreadsheet order, the empty roster (unreadable file) and a roster with
\* one student on two rows
Rosters ==
    { SelectSeq(<<<<"U1", "zs">>, <<"U2", "ls">>, <<"", "zsf">>, <<"U3", "">>>>,
                LAMBDA e : e \in S) : S \in SUBSET RosterEntries }
    \cup { << <<"U1", "zs">>, <<"U1", "zs">> >> }

\* the files that may lie in the task's files directory
ArchiveNames ==
    { <<"zs">>, <<"u1", "x">>, <<"U2", "ls">>, <<"zsf">>, <<"zs", "ls">>,
      <<"a">>, <<"b">>, <<"c">>, <<"d">>, <<".", "ls">>, <<"U3", ".part">> }

\* _RE_STU on a token, upper-cased: "" when the token is no student id
IdOf(tok) ==
    CASE tok \in {"u1", "U1"} -> "U1"
      [] tok = "U2" -> "U2"
      [] tok = "U3" -> "U3"
      [] OTHER -> ""

\* extract_student_id: the first match in the file name, upper-cased
ExtractStudentId(f) ==
    IF \E i \in 1..Len(f) : IdOf(f[i]) # ""
    THEN IdOf(f[CHOOSE i \in 1..Len(f) :
                   IdOf(f[i]) # "" /\ \A j \in 1..(i - 1) : IdOf(f[j]) = ""])
    ELSE ""

\* nm in stem
NameInStem(nm, f) ==
    \E i \in 1..Len(f) : f[i] = nm \/ (f[i] = "zsf" /\ nm = "zs")

NameLen(nm) == IF nm = "zsf" THEN 3 ELSE 2

\* {str(nm).strip() for _, nm in roster if str(nm).strip()}
RosterNameSet(roster) == {roster[i][2] : i \in 1..Len(roster)} \ {""}

\* sorted(roster_name_set, key=len, reverse=True): longest first; names of
\* one length come in the iteration order of the set, which is any order
NameOrders(roster) ==
    LET S == RosterNameSet(roster)
        n == Cardinality(S)
    IN { o \in [1..n -> S] :
           /\ \A i, j \in 1..n : i # j => o[i] # o[j]
           /\ \A i, j \in 1..n : i < j => NameLen(o[i]) >= NameLen(o[j]) }

\* find_roster_name_in_filename: the first name of the list found in the stem
FindRosterName(f, names) ==
    IF \E i \in 1..Len(names) : NameInStem(names[i], f)
    THEN names[CHOOSE i \in 1..Len(names) :
                  /\ NameInStem(names[i], f)
                  /\ \A j \in 1..(i - 1) : ~NameInStem(names[j], f)]
    ELSE ""

\* extract_name_from_filename: the rightmost token that looks like a name
ExtractName(f) ==
    LET like == {i \in 1..Len(f) : f[i] \in {"zs", "ls", "zsf"}}
    IN IF like = {} THEN "" ELSE f[CHOOSE i \in like : \A j \in like : j <= i]

\* the name compute_missing takes from a file: the roster name found in it,
\* else the extracted name if the roster has it
MatchedName(f, roster, names) ==
    IF FindRosterName(f, names) # "" THEN FindRosterName(f, names)
    ELSE IF ExtractName(f) # "" /\ ExtractName(f) \in RosterNameSet(roster)
    THEN ExtractName(f)
    ELSE ""

\* p.name.startswith(".") or p.suffix.lower() == ".part": not counted
Skipped(f) == f[1] = "." \/ f[Len(f)] = ".part"

RECURSIVE ListOf(_)
\* list_submitted_files: the directory's files as a list
ListOf(S) ==
    IF S = {} THEN <<>>
    ELSE LET f == CHOOSE x \in S : TRUE IN <<f>> \o ListOf(S \ {f})

RECURSIVE ScanFiles(_, _, _, _)
\* the loop over the submitted files, on the accumulators
\* [ids, names, total, matched, unknown]
ScanFiles(fl, roster, names, acc) ==
    IF fl = <<>> THEN acc
    ELSE LET f == Head(fl)
             sid == ExtractStudentId(f)
             nm == MatchedName(f, roster, names)
         IN IF Skipped(f) THEN ScanFiles(Tail(fl), roster, names, acc)
            ELSE ScanFiles(Tail(fl), roster, names,
                   [ids |-> IF sid # "" THEN acc.ids \cup {sid} ELSE acc.ids,
                    names |-> IF nm # "" THEN acc.names \cup {nm} ELSE acc.names,
                    total |-> acc.total + 1,
                    matched |-> IF nm # "" THEN acc.matched + 1 ELSE acc.matched,
                    unknown |-> IF nm # "" THEN acc.unknown ELSE acc.unknown \cup {f}])

\* a test that looks at the student id only
Handed_IdOnly(e, ids, nms) == e[1] # "" /\ e[1] \in ids
\* (sid and sid in submitted_ids) or (nm and nm in submitted_names)
Handed(e, ids, nms) ==
    (e[1] # "" /\ e[1] \in ids) \/ (e[2] # "" /\ e[2] \in nms)

RECURSIVE ScanRoster(_, _, _, _)
\* the loop over the roster, on the accumulators [handed, missing]
ScanRoster(roster, ids, nms, acc) ==
    IF roster = <<>> THEN acc
    ELSE ScanRoster(Tail(roster), ids, nms,
            IF Handed(Head(roster), ids, nms)
            THEN [acc EXCEPT !.handed = @ + 1]
            ELSE [acc EXCEPT !.missing = Append(@, Head(roster))])

\* a threshold test that also fires at exactly 20%
RatioBelow_OrEqual(matched, total) == matched * 10 <= 2 * total
\* recognized_name_ratio < 0.2, with the ratio matched / total
RatioBelow(matched, total) == matched * 10 < 2 * total

\* compute_missing(task) for a roster, the files of the task's directory
\* and the order of the roster's names: (ok, missing, stats)
ComputeMissing(roster, fileset, names) ==
    IF roster = <<>>
    THEN [ok |-> FALSE, missing |-> <<>>, stats |-> [e \in {} |-> 0]]
    ELSE LET fa == ScanFiles(ListOf(fileset), roster, names,
                     [ids |-> {}, names |-> {}, total |-> 0, matched |-> 0,
                      unknown |-> {}])
             ra == ScanRoster(roster, fa.ids, fa.names,
                     [handed |-> 0, missing |-> <<>>])
         IN [ok |-> TRUE,
             missing |-> ra.missing,
             stats |-> [roster_total |-> Len(roster),
                        handed_in |-> ra.handed,
                        missing |-> Len(ra.missing),
                        submitted_files_total |-> fa.total,
                        recognized_name_files |-> fa.matched,
                        unknown_name_files |-> fa.unknown,
                        use_submitted_list |->
                            /\ fa.total > 0
                            /\ (fa.matched <= 0 \/ RatioBelow(fa.matched, fa.total))]]

\* format_missing_message: the list of submitted files, or the roster diff
MessageKind(stats) ==
    IF stats.use_submitted_list THEN "submitted_list" ELSE "roster_diff"

\* everything but the compute_missing call
OnlyRoster ==
    UNCHANGED <<now, heap, tbl, db, dirs, lastCleanup, schedVars, remCount,
                dlCount, faults, exports, queue, files, archive, waitDone,
                zipName, nameInput, choose, overwrite, nfiles, up, cl, xn>>

\* compute_missing is called for the task whose directory and roster cm holds
MissingList ==
    /\ ~cm.called
    /\ OnlyRoster
    /\ cm' = [cm EXCEPT !.called = TRUE,
                        !.out = ComputeMissing(cm.roster, cm.files, cm.names)]

\* ====================================================================
\* Part 7 (specification SpecNames): extract_name_from_filename and
\* extract_student_id on the characters of a file name.  A stem is a
\* sequence of characters; a Han character is written by its reading
\* ("Zhang", "San", "Li" are characters of names, the others are the
\* characters of the blacklisted words), digits, letters and separators
\* by themselves.
\* ====================================================================
\* BLACKLIST_SUBSTRINGS
BLACKLIST_SUBSTRINGS ==
    { <<"dian1", "qi">>, <<"xue", "yuan1">>, <<"gong", "cheng">>, <<"ban">>,
      <<"zhuan", "ye">>, <<"bao", "gao">>, <<"du", "shu">>, <<"zuo", "ye">>,
      <<"lun", "wen">>, <<"ma", "yuan2">>, <<"ke">>, <<"yue", "du">>,
      <<"li", "shi">>, <<"zi", "you">>, <<"zhi1", "jian">>, <<"zheng", "zhi2">>,
      <<"jing", "ji">>, <<"xu", "yan">>, <<"dao", "yan">>, <<"jing", "dian2">>,
      <<"si", "xiang">> }

\* STRUCTURAL_WORDS, in the order of the list
STRUCTURAL_WORDS ==
    << <<"dian1", "qi">>, <<"xue", "yuan1">>, <<"gong", "cheng">>, <<"ban">>,
       <<"zhuan", "ye">> >>

\* [\u4e00-\u9fff]
IsHan(c) ==
    c \in {"Zhang", "San", "Li"} \cup
          UNION {{w[i] : i \in 1..Len(w)} : w \in BLACKLIST_SUBSTRINGS}

\* \d
IsDigit(c) == c \in {"0", "1", "2", "3", "4", "5", "6", "7", "8", "9"}

\* [A-Za-z]
IsLetter(c) == c \in {"U", "u", "a", "x"}

\* SEPARATORS, and white space
IsSeparator(c) ==
    c \in {"-", "_", "emdash", "endash", ";", "fullwidth comma", ",", " "}

\* the number of digits in a row at position i and after it
RECURSIVE DigitsFrom(_, _)
DigitsFrom(s, i) ==
    IF i > Len(s) \/ ~IsDigit(s[i]) THEN 0 ELSE 1 + DigitsFrom(s, i + 1)

\* the start of the run of digits position i lies in
RECURSIVE RunStart(_, _)
RunStart(s, i) ==
    IF i > 1 /\ IsDigit(s[i - 1]) THEN RunStart(s, i - 1) ELSE i

\* clean_filename: position i of the stem has become a blank - it held a
\* separator, a letter (_RE_ENG), or a digit of a run of four digits or
\* more (_RE_NUM, which also takes a U or u in front of the run)
Blank(s, i) ==
    \/ IsSeparator(s[i])
    \/ IsLetter(s[i])
    \/ (IsDigit(s[i]) /\ DigitsFrom(s, RunStart(s, i)) >= 4)

\* the last position of the run of marked positions that starts at i
RECURSIVE RunEnd(_, _)
RunEnd(mask, i) ==
    IF i < Len(mask) /\ mask[i + 1] THEN RunEnd(mask, i + 1) ELSE i

\* the maximal runs of marked positions of s from position i on, in order
RECURSIVE Runs(_, _, _)
Runs(s, mask, i) ==
    IF i > Len(s) THEN <<>>
    ELSE IF ~mask[i] THEN Runs(s, mask, i + 1)
    ELSE <<SubSeq(s, i, RunEnd(mask, i))>> \o Runs(s, mask, RunEnd(mask, i) + 1)

\* tokens = [t for t in part.split() if t]
Tokens(s) == Runs(s, [i \in 1..Len(s) |-> ~Blank(s, i)], 1)

\* re.findall(r"[\u4e00-\u9fff]+", part)
Chunks(s) == Runs(s, [i \in 1..Len(s) |-> IsHan(s[i])], 1)

\* bad in token
HasWord(tok, w) ==
    \E i \in 1..Len(tok) :
        i + Len(w) - 1 <= Len(tok) /\ SubSeq(tok, i, i + Len(w) - 1) = w

\* looks_like_name: two or three Han characters holding no blacklisted word
LooksLikeName(tok) ==
    /\ Len(tok) \in {2, 3}
    /\ \A i \in 1..Len(tok) : IsHan(tok[i])
    /\ \A w \in BLACKLIST_SUBSTRINGS : ~HasWord(tok, w)

\* a scan of the tokens that takes the leftmost name
NameToken_Leftmost(toks) ==
    LET valid == SelectSeq(toks, LooksLikeName)
    IN IF valid = <<>> THEN <<>> ELSE valid[1]
\* for tok in reversed(tokens): if looks_like_name(tok): return tok
NameToken(toks) ==
    LET valid == SelectSeq(toks, LooksLikeName)
    IN IF valid = <<>> THEN <<>> ELSE valid[Len(valid)]

\* tok.find(sw): the first position of sw in tok, counted from 0; -1 if none
Find(tok, w) ==
    IF HasWord(tok, w)
    THEN (CHOOSE i \in 1..Len(tok) :
             /\ i + Len(w) - 1 <= Len(tok) /\ SubSeq(tok, i, i + Len(w) - 1) = w
             /\ \A j \in 1..(i - 1) : SubSeq(tok, j, j + Len(w) - 1) # w) - 1
    ELSE -1

\* the second loop: the prefix of token tok before structural word k is a
\* name
PrefixIsName(tok, k) ==
    /\ \A i \in 1..Len(tok) : IsHan(tok[i])
    /\ Find(tok, STRUCTURAL_WORDS[k]) >= 2
    /\ LooksLikeName(SubSeq(tok, 1, Find(tok, STRUCTURAL_WORDS[k])))

\* the second loop over the tokens and, for each, over STRUCTURAL_WORDS
NamePrefix(toks) ==
    LET n == Len(STRUCTURAL_WORDS)
        hit(p) == PrefixIsName(toks[((p - 1) \div n) + 1], ((p - 1) % n) + 1)
        hits == {p \in 1..(Len(toks) * n) : hit(p)}
    IN IF hits = {} THEN <<>>
       ELSE LET p == CHOOSE q \in hits : \A r \in hits : q <= r
                tok == toks[((p - 1) \div n) + 1]
            IN SubSeq(tok, 1, Find(tok, STRUCTURAL_WORDS[((p - 1) % n) + 1]))

\* chunk[i:i+n] for i in range(len(chunk) - n + 1)
Grams(chunk, n) ==
    [i \in 1..(IF Len(chunk) >= n THEN Len(chunk) - n + 1 ELSE 0) |->
        SubSeq(chunk, i, i + n - 1)]

\* the candidates of the third loop: for each chunk the names of three
\* characters, then those of two
RECURSIVE Candidates(_)
Candidates(chunks) ==
    IF chunks = <<>> THEN <<>>
    ELSE SelectSeq(Grams(Head(chunks), 3) \o Grams(Head(chunks), 2), LooksLikeName)
           \o Candidates(Tail(chunks))

\* extract_name_from_filename on the stem of the file name
ExtractNameFromFilename(s) ==
    IF NameToken(Tokens(s)) # <<>> THEN NameToken(Tokens(s))
    ELSE IF NamePrefix(Tokens(s)) # <<>> THEN NamePrefix(Tokens(s))
    ELSE IF Candidates(Chunks(s)) # <<>>
    THEN Candidates(Chunks(s))[Len(Candidates(Chunks(s)))]
    ELSE <<>>

\* _RE_STU matches at position i: U or u and at least eight digits
StuAt(s, i) == s[i] \in {"U", "u"} /\ DigitsFrom(s, i + 1) >= 8

\* extract_student_id: the first match, at most twelve digits, upper-cased
ExtractStudentIdFromFilename(s) ==
    IF \E i \in 1..Len(s) : StuAt(s, i)
    THEN LET i == CHOOSE k \in 1..Len(s) :
                     StuAt(s, k) /\ \A j \in 1..(k - 1) : ~StuAt(s, j)
             d == IF DigitsFrom(s, i + 1) > 12 THEN 12 ELSE DigitsFrom(s, i + 1)
         IN <<"U">> \o SubSeq(s, i + 1, i + d)
    ELSE <<>>

\* the stem of dian-qi-gong-cheng 1 ban Zhang San - U202412345 .docx
ExampleStem ==
    <<"dian1", "qi", "gong", "cheng", "1", "ban", "Zhang", "San", "-",
      "U", "2", "0", "2", "4", "1", "2", "3", "4", "5">>

\* the characters the other stems are made of
StemChars == {"Zhang", "San", "Li", "ban", "-", "1"}

\* the stems of at most n characters
RECURSIVE StemsUpTo(_)
StemsUpTo(n) ==
    IF n = 0 THEN {<<>>}
    ELSE StemsUpTo(n - 1) \cup
         {Append(s, c) : s \in {t \in StemsUpTo(n - 1) : Len(t) = n - 1},
                         c \in StemChars}

\* the extractors are called
OnlyNames ==
    UNCHANGED <<now, heap, tbl, db, dirs, lastCleanup, schedVars, remCount,
                dlCount, faults, exports, queue, files, archive, waitDone,
                zipName, nameInput, choose, overwrite, nfiles, up, cl, cm>>

\* extract_name_from_filename and extract_student_id are called on the
\* name of the file xn holds
ExtractBoth ==
    /\ ~xn.called
    /\ OnlyNames
    /\ xn' = [xn EXCEPT !.called = TRUE,
                        !.name = ExtractNameFromFilename(xn.stem),
                        !.sid = ExtractStudentIdFromFilename(xn.stem)]
\* ====================================================================
\* ====================================================================
\* Part 8 (specification SpecExport): commands.py, /handinget and the
\* number that answers it (getzip mode).  The creator asks for the list of
\* his tasks, picks one, the archive is packed, staged and sent through
\* _send_file; up holds the transfer and up.task the picked task object.
\* While the transfer waits for an upload the clock, /handin and a cancel
\* may run.
\* ====================================================================
\* what packing and staging end with
ExportPreps == {"staged", "packfail", "stagefail"}

\* the numbers the list is answered with
ExportNumbers == 0..2

\* tasks.sort(key=(0 if active else 1, -deadline_ts)) of list_tasks_by_creator
\* (deadline descending), filtered by is_task_gettable
GettableTasks(h, d) ==
    LET a == SelectSeq(tbl, LAMBDA o : h[o].creator_id = User
                                       /\ IsTaskGettable(d, h[o]).ret)
    IN Values(KeySort([i \in 1..Len(a) |->
           <<(IF IsActive(h[a[i]], now) THEN 0 ELSE 100)
                 + (50 - h[a[i]].deadline_ts), a[i]>>]))

\* /handinget in a private conversation: the list is shown and the choice
\* is pending; without a gettable task nothing is pending
HandinGet ==
    /\ up.pc \in {"idle", "replied"}
    /\ dirs' = dirs \cup UNION {IsTaskGettable(dirs, heap[o]).dirs : o \in TableObjs}
    /\ choose' = IF GettableTasks(heap, dirs) = <<>> THEN choose
                 ELSE [mode |-> "getzip",
                       task_ids |-> TaskIdsOf(heap, GettableTasks(heap, dirs)),
                       group_id |-> 0]
    /\ UNCHANGED <<now, heap, tbl, db, lastCleanup, schedVars, remCount,
                   dlCount, faults, exports, queue, files, archive, waitDone,
                   zipName, nameInput, overwrite, nfiles, up, cl, cm, xn>>

\* if sent is True or sent is None
ExportDelivered_Any(sent) == TRUE
ExportDelivered(sent) == sent \in {"True", "None"}

\* _handle_private_number_choice, getzip mode, up to the await of
\* _send_file: 0 cancels, a number off the list is asked again, a failed
\* packing or staging ends the flow, otherwise the transfer starts
ExportChoice(n, prep) ==
    /\ choose.mode = "getzip"
    /\ up.pc \in {"idle", "replied"}
    /\ UNCHANGED <<now, heap, tbl, db, lastCleanup, schedVars, remCount,
                   dlCount, faults, exports, queue, files, archive, waitDone,
                   zipName, nameInput, overwrite, nfiles, cl, cm, xn>>
    /\ IF n = 0
       THEN choose' = NoChoose /\ UNCHANGED <<dirs, up>>
       ELSE IF n > Len(choose.task_ids)
       THEN UNCHANGED <<choose, dirs, up>>
       ELSE LET o == LookupIn(heap, choose.task_ids[n])
            IN IF o = 0
               THEN choose' = NoChoose /\ UNCHANGED <<dirs, up>>
               ELSE /\ dirs' = ZipSubmissions(dirs, heap[o]).dirs
                    /\ IF ~ZipSubmissions(dirs, heap[o]).ok \/ prep # "staged"
                       THEN choose' = NoChoose /\ UNCHANGED up
                       ELSE /\ up' = StartSend([UpIdle EXCEPT !.scene = "private",
                                                              !.arch = TRUE,
                                                              !.task = o],
                                               "export")
                            /\ UNCHANGED choose

\* ... and after it: the reply, the export recorded on the task object
\* that was picked and the table saved if the delivery counts, the pending
\* choice popped
ExportResult ==
    /\ up.pc = "ret"
    /\ up.phase = "export"
    /\ up' = [up EXCEPT !.pc = "replied",
                        !.reply = IF up.ret.sent = "True" THEN {"sent"}
                                  ELSE IF up.ret.sent = "None" THEN {"unconfirmed"}
                                  ELSE {"failed"}]
    /\ IF ExportDelivered(up.ret.sent)
       THEN LET h2 == [heap EXCEPT ![up.task].last_handinget_ts = now]
            IN heap' = h2 /\ db' = Snapshot(h2, tbl)
       ELSE UNCHANGED <<heap, db>>
    /\ choose' = NoChoose
    /\ UNCHANGED <<now, tbl, dirs, lastCleanup, schedVars, remCount,
                   dlCount, faults, exports, queue, files, archive, waitDone,
                   zipName, nameInput, overwrite, nfiles, cl, cm, xn>>
\* The two specifications
\* ====================================================================
UnknownTid == <<1, "hw1", 0>>

\* /handin: every time of the command is parsed to a moment after `now`
\* (parse_mmdd_hhmm moves a time that is not in the future to next year),
\* then create_task is called
HandinCommand(g, c, in) ==
    /\ in[3] > now
    /\ \A i \in 1..Len(in[2]) : in[2][i] > now
    /\ CreateTask(g, c, in[1], in[2], in[3])

Next ==
    \/ Tick
    \/ \E g \in Groups, c \in Creators, in \in CreateInputs :
          HandinCommand(g, c, in)
    \/ \E tid \in TableIds \cup {UnknownTid}, by \in Actors :
          CancelTask(tid, by)
    \/ \E o \in 1..Len(heap) : RecordExport(o)
    \/ ListGettable
    \/ SchedWake
    \/ SchedNext
    \/ SchedBody
    \/ Deliver
    \/ SchedRemindResume
    \/ SchedDeadlineResume
    \/ SchedSendRaises
    \/ ConnectionLost
    \/ Reconnect

Spec == Init /\ [][Next]_vars

\* the conversation of User with the task store under it; the scheduler
\* stays suspended in its sleep
NextSession ==
    \/ Tick
    \/ \E in \in SessionInputs : HandinCommand(1, User, in)
    \/ \E f \in FileNames : DispatchFile(f)
    \/ \E t \in PrivateTexts : DispatchText("private", t)
    \/ \E t \in GroupTexts : DispatchText("group", t)

SpecSession == Init /\ [][NextSession]_vars

\* one /get with one file, in either kind of conversation
NextSend ==
    \/ \E scene \in Scenes, arch \in BOOLEAN : GetCommand(scene, arch)
    \/ \E resp \in Responses : FirstAttempt(resp)
    \/ \E resp \in Responses : RetryAttempt(resp)
    \/ \E zip \in ZipOutcomes : TakeResult(zip)

SpecSend == Init /\ [][NextSend]_vars

\* the creator exports his tasks while the store goes on
NextExport ==
    \/ Tick
    \/ \E in \in SessionInputs : HandinCommand(1, User, in)
    \/ \E tid \in TableIds : CancelTask(tid, User)
    \/ HandinGet
    \/ \E n \in ExportNumbers, prep \in ExportPreps : ExportChoice(n, prep)
    \/ \E resp \in Responses : FirstAttempt(resp)
    \/ \E resp \in Responses : RetryAttempt(resp)
    \/ ExportResult

SpecExport == Init /\ [][NextExport]_vars
\* a send that got through returns
SchedRemindSent == delivered /\ SchedRemindResume
SchedDeadlineSent == delivered /\ SchedDeadlineResume

\* the tasks the liveness of the scheduler is checked with: hw1, whose
\* directory is unusable, and hw2 with a reminder before its deadline
LiveInputs == {<<"hw1", <<>>, 2>>, <<"hw2", <<2>>, 3>>}

\* the scheduler alone with the clock and /handin; every send gets through
NextLive ==
    \/ Tick
    \/ \E in \in LiveInputs : HandinCommand(1, User, in)
    \/ SchedWake
    \/ SchedNext
    \/ SchedBodyOk
    \/ SchedTaskFails
    \/ Deliver
    \/ SchedRemindSent
    \/ SchedDeadlineSent

\* the event loop keeps running the scheduler task: its sleep returns, its
\* sends are carried out and return
SpecLive ==
    /\ Init
    /\ [][NextLive]_vars
    /\ WF_vars(SchedWake) /\ WF_vars(SchedNext) /\ WF_vars(SchedBodyOk)
    /\ WF_vars(SchedTaskFails) /\ WF_vars(Deliver)
    /\ WF_vars(SchedRemindSent) /\ WF_vars(SchedDeadlineSent)

\* tasks are created, cancelled by any caller, and closed by the scheduler
NextCancel ==
    \/ Tick
    \/ \E in \in LiveInputs : HandinCommand(1, User, in)
    \/ \E tid \in TableIds, a \in CancelActors : CancelChoice(tid, a)
    \/ SchedWake
    \/ SchedNext
    \/ SchedBody
    \/ Deliver
    \/ SchedRemindSent
    \/ SchedDeadlineSent

SpecCancel == Init /\ [][NextCancel]_vars

\* the bot as constructed, with any roster file, any content of the task's
\* directory and any iteration order of the name set
InitRoster ==
    /\ Constructed
    /\ \E roster \in Rosters, fileset \in SUBSET ArchiveNames :
          \E names \in NameOrders(roster) :
             cm = [CmNone EXCEPT !.roster = roster, !.files = fileset,
                                 !.names = names]
    /\ xn = XnNone

NextRoster == MissingList

\* compute_missing on every roster and every content of the directory
SpecRoster == InitRoster /\ [][NextRoster]_vars

\* the bot as constructed and any file name
InitNames ==
    /\ Constructed
    /\ cm = CmNone
    /\ \E s \in StemsUpTo(MaxStem) \cup {ExampleStem} :
          xn = [XnNone EXCEPT !.stem = s]

NextNames == ExtractBoth

\* the extractors on every file name
SpecNames == InitNames /\ [][NextNames]_vars
\* the connection and its tasks; the bot's stores stay as constructed
NextClient ==
    \/ Connect
    \/ \E k \in ConvKeys : Event(k)
    \/ \E i \in 1..MaxEvents : TaskStart(i)
    \/ \E i \in 1..MaxEvents : DispatchEnds(i)
    \/ \E i \in 1..MaxEvents : TaskCancelled(i)
    \/ ConnectionClosed
    \/ \E g \in 1..MaxConnections : SchedulerExits(g)
    \/ SchedulerGathered
    \/ GraceOver
    \/ Reaped

SpecClient == Init /\ [][NextClient]_vars
\* ====================================================================
\* Properties of the task store and the scheduler (specification Spec)
\* ====================================================================
SamePair(a, b) == heap[a].group_id = heap[b].group_id /\ heap[a].name = heap[b].name

ValidInputs ==
    {in \in CreateInputs :
        /\ in[1] \notin {"", "h w"}
        /\ LET rl == SortedSeq(SeqRange(in[2]))
           IN rl = <<>> \/ rl[Len(rl)] < in[3]}

\* some task of the pair in the table is not closed and before its deadline
HasActive(g, n) ==
    \E o \in TableObjs :
        /\ heap[o].group_id = g /\ heap[o].name = n
        /\ ~heap[o].closed /\ now < heap[o].deadline_ts

\* C1: in every reachable state at most one task of a (group_id, name) pair
\* is active (not closed and now < deadline_ts).
C1_OneActivePerPair ==
    \A a \in TableObjs, b \in TableObjs :
        (a # b /\ SamePair(a, b))
            => ~( /\ ~heap[a].closed /\ now < heap[a].deadline_ts
                  /\ ~heap[b].closed /\ now < heap[b].deadline_ts )

\* two records of one pair are in the table, the later one active
C1_Witness ==
    \E a \in TableObjs, b \in TableObjs :
        /\ a # b /\ SamePair(a, b)
        /\ ~IsActive(heap[a], now) /\ IsActive(heap[b], now)

\* C2: create_task for a pair that has an active task changes neither the
\* table nor the persisted document (it returns the conflict); once no task
\* of the pair is active any more - the earlier one was cancelled or its
\* deadline has passed - the same create_task stores a new task.
C2_ConflictThenSuccess ==
    \A g \in Groups, c \in Creators, in \in ValidInputs :
        /\ HasActive(g, in[1]) =>
              ~ENABLED (/\ CreateTask(g, c, in[1], in[2], in[3])
                        /\ <<heap, tbl, db, dirs>>' # <<heap, tbl, db, dirs>>)
        /\ ( /\ SchedSuspended
             /\ Len(heap) < MaxObjs
             /\ \E o \in TableObjs :
                   /\ heap[o].group_id = g /\ heap[o].name = in[1]
                   /\ (heap[o].cancelled \/ now >= heap[o].deadline_ts) )
           => IF HasActive(g, in[1])
              THEN TRUE
              ELSE ENABLED (/\ CreateTask(g, c, in[1], in[2], in[3])
                            /\ Len(heap') = Len(heap) + 1
                            /\ heap'[Len(heap')].name = in[1]
                            /\ Len(heap') \in SeqRange(tbl')
                            /\ db' = Snapshot(heap', tbl'))

\* a task was created for a pair whose earlier task had been cancelled
C2_Witness ==
    \E a \in 1..Len(heap), b \in TableObjs :
        /\ a < b /\ SamePair(a, b)
        /\ heap[a].cancelled
        /\ IsActive(heap[b], now)

\* C3: every record ever stored by create_task is still in the table: a
\* successful create_task uses a fresh task_id and replaces no record.
C3_NoRecordReplaced ==
    /\ \A o \in 1..Len(heap) : o \in TableObjs
    /\ Len(tbl) = Len(heap)

\* C4: the reminder notifications of a task go out in index order, never
\* more than one per index, and remind_sent_idx advances by one for each:
\* every index that has been notified is below remind_sent_idx, or is the
\* next index while the scheduler is still inside its send.  (A send that
\* came back without getting through is not held against the claim here.)
C4_RemindersOncePerIndex ==
    \A o \in 1..Len(heap) :
        \A i \in 1..Len(remCount[o]) :
            /\ remCount[o][i] <= 1
            /\ (remCount[o][i] >= 1) =>
                  \/ i <= heap[o].remind_sent_idx
                  \/ (spc = "rem_await" /\ scur = o
                      /\ i = heap[o].remind_sent_idx + 1)

\* C5: the deadline notification of a task is sent at most once, and once
\* it has been sent (and the scheduler has moved on) the task is closed.
C5_DeadlineAtMostOnce ==
    \A o \in 1..Len(heap) :
        /\ dlCount[o] <= 1
        /\ (dlCount[o] >= 1 /\ ~(spc = "dl_await" /\ scur = o))
              => heap[o].closed

\* a scheduler pass starts and its throttle lets the sweep run
SweepStep ==
    spc = "sleep" /\ spc' = "iter" /\ now - lastCleanup >= CLEANUP_EVERY

\* C6: a step marks a task purged only in the sweep, only when the task is
\* not active and now - last_handinget_ts >= the retention window at the
\* sweep's time, and its directory is then gone; a sweep leaves every
\* already purged task as it is, reports a change only if it purged a
\* task, and a sweep repeated at the same time would purge nothing.
C6_PurgeOnlyWhenDue ==
    [][ /\ \A o \in 1..Len(heap) :
              (~heap[o].purged /\ heap'[o].purged) =>
                  /\ SweepStep
                  /\ ~IsActive(heap[o], now)
                  /\ now - heap[o].last_handinget_ts >= KEEP_TICKS
                  /\ heap'[o].purged_ts = now
                  /\ <<heap[o].group_id, heap[o].name>> \notin dirs'
        /\ SweepStep =>
              /\ \A o \in 1..Len(heap) : heap[o].purged => heap'[o] = heap[o]
              /\ schanged' = (\E o \in 1..Len(heap) :
                                 ~heap[o].purged /\ heap'[o].purged)
              /\ \A o \in SeqRange(tbl') : ~PurgeDue(heap'[o], now)
      ]_vars

\* the sweep runs over a table that holds an already purged task
C6_Witness ==
    /\ spc = "iter" /\ lastCleanup = snow
    /\ \E o \in TableObjs : heap[o].purged /\ heap[o].purged_ts < snow

\* ====================================================================
\* Properties of the conversation (specification SpecSession)
\* ====================================================================
OverwritePending == overwrite # NoOverwrite
ChoicePending == choose # NoChoose

\* the number of pending modes of User that are set
PendingCount ==
    (IF waitDone THEN 1 ELSE 0) + (IF zipName THEN 1 ELSE 0)
        + (IF nameInput THEN 1 ELSE 0) + (IF ChoicePending THEN 1 ELSE 0)
        + (IF OverwritePending THEN 1 ELSE 0)

\* C7 (as stated): at most one of the pending modes awaiting-done,
\* awaiting-zip-name, awaiting-submitter-name, awaiting-task-choice and
\* awaiting-overwrite-confirmation is set.
C7_AtMostOnePending == PendingCount <= 1

\* C7 (amended): at most one of awaiting-done, awaiting-zip-name and
\* awaiting-submitter-name is set; awaiting-submitter-name is never set
\* together with a task choice for a submission, and neither it nor
\* awaiting-zip-name together with an overwrite confirmation.  (A task
\* choice does stay set next to awaiting-done, awaiting-zip-name and the
\* overwrite confirmation.)
C7_CollectModesExclusive ==
    /\ ~(waitDone /\ zipName)
    /\ ~(waitDone /\ nameInput)
    /\ ~(zipName /\ nameInput)
    /\ nameInput => choose.mode # "submit"
    /\ OverwritePending => ~zipName /\ ~nameInput

\* a second file has arrived: the wait for done and the task choice are
\* both set
C7_Witness ==
    /\ waitDone /\ choose.mode = "submit"
    /\ Len(queue) >= 2

\* the handler the stated order gives the private text t: "none" when no
\* pending mode takes it
PriorityConsumer(t) ==
    IF OverwritePending THEN "overwrite"
    ELSE IF waitDone /\ IsDone(t) THEN "done"
    ELSE IF zipName THEN "zip"
    ELSE IF nameInput THEN "name"
    ELSE IF choose.mode = "submit" /\ IsDigits(t) THEN "number"
    ELSE "none"

ModesOf(s) == <<s.q, s.wd, s.zn, s.ni, s.ch, s.ow>>

\* C9: while an overwrite confirmation is outstanding, an event of the
\* private conversation other than a yes/no reply - another text or a
\* newly sent file - changes no pending mode, leaves the queue unchanged
\* and leaves the confirmation outstanding.
C9_OverwriteSuppressesOthers ==
    OverwritePending =>
        /\ \A t \in PrivateTexts :
              Lower(t) \notin {"y", "yes", "n", "no"}
                  => ModesOf(TextResult(Cur, "private", t)) = ModesOf(Cur)
        /\ \A f \in FileNames :
              ModesOf(HandleFile(Cur, f, <<nfiles + 1>>)) = ModesOf(Cur)

\* the archive entries of the file name `name` in the archive of task o
Archived(ar, o, name) ==
    {a \in ar : a[1] = <<heap[o].group_id, heap[o].name>> /\ a[2] = name}

\* C10: a move without the overwrite flag onto an archived file of the
\* same name returns EXISTS and moves nothing; the reply N to the
\* confirmation deletes the inbox file and takes it from the queue while
\* the archive stays as it is; the reply Y puts the new file in the place
\* of the archived one; and no other event of the conversation changes or
\* removes an archived file.
C10_OverwriteOnlyOnYes ==
    /\ \A o \in TableObjs :
          (queue # <<>> /\ ~PathFree(files, queue[1].path)
             /\ Archived(archive, o, queue[1].path[2]) # {})
          => LET r == MoveInboxToTask(Cur, queue[1].path, o, FALSE)
             IN /\ r.code = "EXISTS"
                /\ r.s.ar = archive /\ r.s.fs = files /\ r.s.q = queue
    /\ (OverwritePending /\ queue # <<>>)
          => LET i == OverwriteItem(Cur)
                 rn == TextResult(Cur, "private", "n")
                 ry == TextResult(Cur, "private", "Y")
                 o == LookupIn(heap, overwrite.task_id)
             IN /\ rn.ar = archive
                /\ PathFree(rn.fs, queue[i].path)
                /\ rn.q = RemoveAt(queue, i)
                /\ rn.ow = NoOverwrite
                /\ (o # 0 /\ IsActive(heap[o], now)
                      /\ ~PathFree(files, queue[i].path))
                     => /\ Archived(ry.ar, o, queue[i].path[2]) =
                              {<<<<heap[o].group_id, heap[o].name>>,
                                 queue[i].path[2],
                                 Content(files, queue[i].path)>>}
                        /\ PathFree(ry.fs, queue[i].path)
                        /\ ry.q = RemoveAt(queue, i)
    /\ \A t \in PrivateTexts :
          ~(archive \subseteq TextResult(Cur, "private", t).ar)
              => OverwritePending /\ Lower(t) \in {"y", "yes"}
    /\ \A t \in GroupTexts : archive \subseteq TextResult(Cur, "group", t).ar
    /\ \A f \in FileNames :
          archive \subseteq HandleFile(Cur, f, <<nfiles + 1>>).ar

\* the move has returned EXISTS: a confirmation is pending for an inbox
\* file whose name is archived with another content
C10_Witness ==
    /\ OverwritePending
    /\ LookupIn(heap, overwrite.task_id) # 0
    /\ IsActive(heap[LookupIn(heap, overwrite.task_id)], now)
    /\ ~PathFree(files, overwrite.path)
    /\ \E a \in archive :
          /\ a[2] = overwrite.path[2]
          /\ a[3] # Content(files, overwrite.path)

\* the task choice for a submission is the mode the next reply meets
InTaskChoice ==
    /\ choose.mode = "submit"
    /\ ~waitDone /\ ~zipName /\ ~nameInput /\ ~OverwritePending

\* no pending mode of the session state s is set
NonePending(s) ==
    /\ ~s.wd /\ ~s.zn /\ ~s.ni
    /\ s.ch = NoChoose /\ s.ow = NoOverwrite

\* the reply "1" picks an active task and the move of the head succeeds
ChoiceOneMoves ==
    /\ InTaskChoice
    /\ queue # <<>>
    /\ Len(choose.task_ids) >= 1
    /\ LookupIn(heap, choose.task_ids[1]) # 0
    /\ IsActive(heap[LookupIn(heap, choose.task_ids[1])], now)
    /\ ~PathFree(files, queue[1].path)
    /\ Archived(archive, LookupIn(heap, choose.task_ids[1]),
                queue[1].path[2]) = {}

\* C11: in the task choice for a submission, a reply with the index of an
\* active task whose move succeeds takes the head of the queue out of the
\* queue and the inbox and stores it in that task's archive; with items
\* left in the queue the session is in the task choice for a submission
\* again, otherwise no pending mode of the user is set.
C11_SubmitArchivesHead ==
    ChoiceOneMoves =>
        LET o == LookupIn(heap, choose.task_ids[1])
            r == TextResult(Cur, "private", "1")
        IN /\ r.q = Tail(queue)
           /\ PathFree(r.fs, queue[1].path)
           /\ r.ar = archive \cup
                  {<<<<heap[o].group_id, heap[o].name>>, queue[1].path[2],
                     Content(files, queue[1].path)>>}
           /\ IF Tail(queue) # <<>>
              THEN /\ r.ch.mode = "submit"
                   /\ r.ch.task_ids # <<>>
                   /\ ~r.wd /\ ~r.zn /\ ~r.ni /\ r.ow = NoOverwrite
              ELSE NonePending(r)

\* the choice is open with a second item waiting behind the head
C11_Witness == ChoiceOneMoves /\ Len(queue) >= 2

ZipNames == {t \in PrivateTexts : t \notin {"", "0", "/cancel"}}

\* the zip naming is pending over a queue that can be packed
NamingReady ==
    /\ zipName /\ ~OverwritePending
    /\ queue # <<>>
    /\ Packed(files, queue) # <<>>

\* the queue of s holds the zip made of the queue of the present state and
\* nothing else, the files queued before are gone from the inbox and the
\* zip naming is over
ZipReplacesQueue(s) ==
    /\ Len(s.q) = 1
    /\ s.q[1].path[1] = "batch"
    /\ s.q[1].path \notin {queue[i].path : i \in 1..Len(queue)}
    /\ ~PathFree(s.fs, s.q[1].path)
    /\ Content(s.fs, s.q[1].path) = Packed(files, queue)
    /\ \A i \in 1..Len(queue) : PathFree(s.fs, queue[i].path)
    /\ ~s.zn /\ ~s.wd /\ ~s.ni /\ s.ow = NoOverwrite
    /\ s.ar = archive

\* C13 (as stated): in awaiting-zip-name, after a non-empty reply that is
\* no cancel and whose packaging succeeds, the queue holds exactly the new
\* zip, every file queued before is deleted from the inbox, the zip naming
\* is cleared, and the session is in the task choice on the zip.
C13_ZipThenTaskChoice ==
    NamingReady =>
        \A t \in ZipNames :
            LET r == TextResult(Cur, "private", t)
            IN /\ ZipReplacesQueue(r)
               /\ r.ch.mode = "submit"
               /\ r.ch.task_ids # <<>>

\* C13 (amended): as above, and the session is in the task choice on the
\* zip when some task is active at that moment; when none is, the zip
\* stays queued and no task choice is pending.
C13_ZipThenChoiceIfActive ==
    NamingReady =>
        \A t \in ZipNames :
            LET r == TextResult(Cur, "private", t)
            IN /\ ZipReplacesQueue(r)
               /\ IF ActiveTasks(heap) # <<>>
                  THEN /\ r.ch.mode = "submit"
                       /\ r.ch.task_ids = TaskIdsOf(heap, ActiveTasks(heap))
                  ELSE r.ch = NoChoose

\* a batch of two files waits for its name while a task is active
C13_Witness ==
    /\ NamingReady
    /\ Len(queue) >= 2
    /\ ActiveTasks(heap) # <<>>

\* the reply t aborts what is pending: it clears the mode it meets and, in
\* the zip naming and in the task choice for a submission, deletes the
\* queued file(s)
AbortsOn(t) ==
    LET r == TextResult(Cur, "private", t)
    IN /\ (waitDone /\ ~OverwritePending) => ~r.wd
       /\ (zipName /\ ~OverwritePending) =>
             /\ ~r.zn /\ r.q = <<>>
             /\ \A i \in 1..Len(queue) : PathFree(r.fs, queue[i].path)
       /\ (nameInput /\ ~OverwritePending) =>
             /\ ~r.ni
             /\ r.fs \subseteq files
       /\ (InTaskChoice /\ queue # <<>>) =>
             /\ r.ch = NoChoose
             /\ r.q = Tail(queue)
             /\ PathFree(r.fs, queue[1].path)
             /\ r.ar = archive
       /\ (choose.mode = "cancel" /\ ~waitDone /\ ~zipName /\ ~nameInput
             /\ ~OverwritePending) =>
             /\ r.ch = NoChoose
             /\ r.hp = heap

\* C14: in every pending mode - awaiting-done, awaiting-zip-name,
\* awaiting-submitter-name and the task choice in its modes - a reply 0
\* and a reply cancel each abort the pending operation and clear that
\* mode; in awaiting-zip-name and in the submit mode the abort also
\* deletes the queued file(s).
C14_UniversalAbort == AbortsOn("0") /\ AbortsOn("cancel")

\* the file f arrives in the state s while one file waits for its
\* submitter name: both files are in the queue and in the inbox afterwards
\* and the wait for the name is over
SecondFileKept(r, f) ==
    /\ Len(r.q) = 2
    /\ r.q[1] = queue[1]
    /\ r.q[2].name = f
    /\ r.q[2].path # queue[1].path
    /\ ~PathFree(r.fs, r.q[1].path) /\ ~PathFree(r.fs, r.q[2].path)
    /\ files \subseteq r.fs
    /\ ~r.ni /\ ~r.zn

\* C15 (as stated): a file that arrives while the single-file flow awaits
\* a submitter name ends awaiting-submitter-name and sets awaiting-done,
\* with all files kept in the queue; awaiting-submitter-name is never
\* pending together with awaiting-done or awaiting-zip-name.
C15_SecondFileStartsBatch ==
    /\ ~(nameInput /\ waitDone) /\ ~(nameInput /\ zipName)
    /\ nameInput =>
          \A f \in FileNames :
              LET r == HandleFile(Cur, f, <<nfiles + 1>>)
              IN SecondFileKept(r, f) /\ r.wd

\* C15 (amended): as above, with awaiting-done set when some task is
\* active at the arrival; when none is, awaiting-submitter-name is ended
\* all the same, both files stay queued and no mode is pending.
C15_SecondFileBatchIfActive ==
    /\ ~(nameInput /\ waitDone) /\ ~(nameInput /\ zipName)
    /\ nameInput => Len(queue) = 1
    /\ nameInput =>
          \A f \in FileNames :
              LET r == HandleFile(Cur, f, <<nfiles + 1>>)
              IN /\ SecondFileKept(r, f)
                 /\ IF ActiveTasks(heap) # <<>>
                    THEN r.wd /\ r.ch.mode = "submit"
                    ELSE NonePending(r)

\* one file waits for its submitter name, a task is active and another
\* file can still arrive
C15_Witness ==
    /\ nameInput
    /\ Len(queue) = 1
    /\ ActiveTasks(heap) # <<>>
    /\ nfiles < MaxFiles

\* ====================================================================
\* Properties of the file sending (specification SpecSend)
\* ====================================================================
\* the uploads of the phase ph, in order
PhaseLog(ph) == SelectSeq(up.log, LAMBDA e : e[1] = ph)
LastUpload == up.log[Len(up.log)]
Transient(resp) == resp \in {"rich", "enoent"}
Contains(text, sub) ==
    \E i \in 1..(Len(text) - Len(sub) + 1) :
        SubSeq(text, i, i + Len(sub) - 1) = sub

\* C16: an upload that comes back without a confirmable reply ends the
\* sending with the result None (pending), never False (failed): no
\* upload follows it - no retry, no other channel, no zip wrapped around
\* the file - and the caller lists the file as submitted but unconfirmed,
\* not as failed.
C16_UnconfirmedIsPending ==
    /\ \A i \in 1..Len(up.log) : up.log[i][3] = "none" => i = Len(up.log)
    /\ (up.log # <<>> /\ LastUpload[3] = "none") =>
          /\ up.pc \in {"ret", "replied"}
          /\ up.ret.sent = "None"
          /\ up.pc = "replied" =>
                /\ up.reply = {"unconfirmed"}
                /\ Len(up.pending_list) = 1
                /\ up.bad_list = <<>>
    /\ (up.pc \in {"ret", "replied"} /\ up.ret.sent = "False")
          => \A i \in 1..Len(up.log) : up.log[i][3] # "none"

\* a retried upload stayed unconfirmed and the /get has answered
C16_Witness ==
    /\ up.pc = "replied"
    /\ Len(up.log) >= 2
    /\ LastUpload[3] = "none"
    /\ up.log[Len(up.log) - 1][2] = LastUpload[2]

\* C17: when the uploads on the primary channel fail with a transient
\* error k times, k at most the number of configured delays, and the next
\* upload is acknowledged, _send_file returns True with the note of a
\* success after retry - not False - and nothing else is uploaded: the
\* other channel is not used.
C17_RetryThenSent ==
    \A ph \in {"source", "zip"}, k \in 1..Len(SEND_RETRY_DELAYS) :
        LET pl == PhaseLog(ph)
        IN ( /\ Len(pl) >= k + 1
             /\ \A i \in 1..k : /\ pl[i][2] = PrimaryChannel(up.scene)
                                /\ Transient(pl[i][3])
             /\ pl[k + 1][2] = PrimaryChannel(up.scene)
             /\ pl[k + 1][3] = "ok" )
           => /\ Len(pl) = k + 1
              /\ up.phase = ph
              /\ up.pc \in {"ret", "replied"}
              /\ up.ret.sent = "True"
              /\ InText("retried ok", up.ret.detail)
              /\ up.pc = "replied" => up.reply = {"sent"}

\* the group upload failed twice with a transient error and went through
\* on the last retry
C17_Witness ==
    /\ up.pc = "ret"
    /\ up.scene = "group"
    /\ up.log = <<<<"source", "group", "rich">>, <<"source", "group", "enoent">>,
                  <<"source", "group", "ok">>>>

\* the uploads on the group channel in the phase log pl have ended in
\* failure before upload number i
GroupFailedBefore(pl, i) ==
    /\ i > 1
    /\ \A j \in 1..(i - 1) : pl[j][2] = "group" /\ pl[j][3] \notin {"ok", "none"}
    /\ \/ ~IsRetryableFail(Detail(pl[i - 1][3]))
       \/ i - 1 = 1 + Len(SEND_RETRY_DELAYS)

\* C18: in a group conversation the private upload is made only after the
\* group upload has ended in failure, never after it was sent or left
\* unconfirmed; _send_file returns False only when the group upload and
\* the private one have both failed, and its detail then holds the detail
\* of both failures; in a private conversation nothing is uploaded to a
\* group.
C18_PrivateOnlyAfterGroupFailed ==
    /\ up.scene = "private" => \A i \in 1..Len(up.log) : up.log[i][2] = "private"
    /\ up.scene = "group" =>
          \A ph \in {"source", "zip"} :
              LET pl == PhaseLog(ph)
                  firstp == IF \E i \in 1..Len(pl) : pl[i][2] = "private"
                            THEN CHOOSE i \in 1..Len(pl) :
                                    /\ pl[i][2] = "private"
                                    /\ \A j \in 1..(i - 1) : pl[j][2] = "group"
                            ELSE 0
              IN /\ \A i \in 1..Len(pl), j \in 1..Len(pl) :
                       (pl[i][2] = "private" /\ pl[j][2] = "group") => j < i
                 /\ firstp # 0 => GroupFailedBefore(pl, firstp)
                 /\ (ph = up.phase /\ up.pc = "ret" /\ up.ret.sent = "False") =>
                       /\ firstp # 0
                       /\ pl[Len(pl)][2] = "private"
                       /\ pl[Len(pl)][3] \notin {"ok", "none"}
                       /\ Contains(up.ret.detail, Detail(pl[firstp - 1][3]))
                       /\ Contains(up.ret.detail, Detail(pl[Len(pl)][3]))

\* in a group conversation the group upload and then the private one have
\* failed, for different reasons
C18_Witness ==
    /\ up.pc = "ret"
    /\ up.scene = "group"
    /\ up.ret.sent = "False"
    /\ up.log = <<<<"source", "group", "fail">>, <<"source", "private", "rich">>,
                  <<"source", "private", "rich">>, <<"source", "private", "rich">>>>

\* ====================================================================
\* Properties of the client (specification SpecClient)
\* ====================================================================
Tasks == 1..Len(cl.tasks)

SameConversation(i, j) == cl.tasks[i].key = cl.tasks[j].key

\* C19: at no time are two dispatches of one conversation key executing,
\* and a dispatch of a conversation has started only if every dispatch of
\* an earlier event of that conversation has finished (or was cancelled
\* with its connection): dispatches of one conversation run one after the
\* other in the order their events arrived.
C19_OneDispatchPerConversation ==
    /\ \A i, j \in Tasks :
          (i # j /\ cl.tasks[i].st = "run" /\ cl.tasks[j].st = "run")
             => ~SameConversation(i, j)
    /\ \A i, j \in Tasks :
          (i < j /\ SameConversation(i, j) /\ cl.tasks[j].st \in {"run", "done"})
             => cl.tasks[i].st \in Terminal

\* two events of one conversation, the first in dispatch and the second
\* waiting for the conversation's lock, while a dispatch of another
\* conversation that arrived after them runs at the same time
C19_Witness ==
    \E i, j, m \in Tasks :
        /\ i < j /\ j < m
        /\ SameConversation(i, j) /\ ~SameConversation(i, m)
        /\ cl.tasks[i].st = "run"
        /\ cl.tasks[j].st = "lock"
        /\ cl.tasks[m].st = "run"

\* C20: while a connection is open, and whenever run_forever is about to
\* connect, the scheduler task of every earlier connection is done and
\* every dispatch of every earlier connection has finished or been
\* cancelled; at most one scheduler task is alive at any time; a
\* dispatch is cancelled only by the cancel() that follows the grace period.
C20_NothingSurvivesReconnect ==
    /\ cl.pc \in {"connected", "down"} =>
          /\ \A g \in 1..Len(cl.sched) :
                (cl.pc = "down" \/ g # cl.gen) => cl.sched[g] = "done"
          /\ \A i \in Tasks :
                (cl.pc = "down" \/ cl.tasks[i].gen # cl.gen)
                   => cl.tasks[i].st \in Terminal
    /\ Cardinality({g \in 1..Len(cl.sched) : cl.sched[g] # "done"}) <= 1
    /\ \A i \in Tasks : cl.tasks[i].st = "cancelled" => cl.tasks[i].creq

\* the second connection is open and serves a dispatch; of the first
\* connection one dispatch finished in the grace period and one was
\* cancelled after it
C20_Witness ==
    /\ cl.pc = "connected"
    /\ cl.gen = 2
    /\ cl.sched = <<"done", "run">>
    /\ \E i, j, m \in Tasks :
          /\ cl.tasks[i].gen = 1 /\ cl.tasks[i].st = "done"
          /\ cl.tasks[j].gen = 1 /\ cl.tasks[j].st = "cancelled"
          /\ cl.tasks[m].gen = 2 /\ cl.tasks[m].st = "run"

\* ====================================================================
\* Properties of the persisted document (specification Spec)
\* ====================================================================
\* the mutations of table entry i that the document does not hold: every
\* reminder mark is one, and so is any other difference of the record
UnsavedAt(i) ==
    IF i > Len(db) THEN 1
    ELSE LET mem == heap[tbl[i]]
             doc == db[i]
         IN (IF mem.remind_sent_idx > doc.remind_sent_idx
             THEN mem.remind_sent_idx - doc.remind_sent_idx ELSE 0)
            + (IF [mem EXCEPT !.remind_sent_idx = 0] # [doc EXCEPT !.remind_sent_idx = 0]
               THEN 1 ELSE 0)

RECURSIVE UnsavedUpTo(_)
UnsavedUpTo(n) == IF n = 0 THEN 0 ELSE UnsavedAt(n) + UnsavedUpTo(n - 1)

\* what a crash at this instant loses
Unsaved == UnsavedUpTo(Len(tbl))

\* C21: at every instant the persisted document holds one record for every
\* entry of the task table, each under the entry's task_id (a complete
\* snapshot, never a partial or emptied one), and it lags the table by at
\* most one mutation: a crash loses only the most recent mutation.
C21_CrashLosesLastMutation ==
    /\ Len(db) = Len(tbl)
    /\ \A i \in 1..Len(db) : db[i].task_id = heap[tbl[i]].task_id
    /\ Unsaved <= 1

\* the steps that end a scheduler pass: the task list is exhausted, or an
\* exception reaches the loop's handler
PassEnds == spc \in {"iter", "body", "rem_await", "dl_await"} /\ spc' = "sleep"

\* C22: a scheduler pass that changed a task field ends with the persisted
\* document equal to the task table, also when a send of the pass fails
\* part-way; a pass that changed nothing leaves the document as it was.
C22_PassEndsSaved ==
    [][PassEnds => IF schanged
                   THEN db' = Snapshot(heap', tbl')
                   ELSE db' = db]_vars

\* ====================================================================
\* Properties of the scheduler's progress (specification SpecLive)
\* ====================================================================
\* task o is in the table, its own processing does not fail, it is not
\* closed and its deadline has passed
DeadlinePassed(o) ==
    /\ o <= Len(heap)
    /\ ~Broken(heap[o])
    /\ ~heap[o].closed
    /\ now >= heap[o].deadline_ts

\* task o got its deadline notification and is closed
DeadlineServed(o) == o <= Len(heap) /\ heap[o].closed /\ dlCount[o] >= 1

\* C23: the scheduler keeps making passes, and a task whose processing fails
\* in every pass does not stop the others: every other non-closed task
\* whose deadline has passed eventually gets its deadline notification and
\* is closed.
C23_OthersStillServed ==
    \A o \in 1..MaxObjs :
        DeadlinePassed(o) ~> DeadlineServed(o)

\* ====================================================================
\* Properties of cancelling (specification SpecCancel)
\* ====================================================================
\* the ids a cancel can name, and the callers' identities and levels
CancelIds == TableIds \cup {UnknownTid}

\* the cancel changed no task field and did not save
Refused(r) == r.hp = heap /\ ~r.saved

\* the task under tid is closed and cancelled, with the actor and the time
CancelledBy(r, tid, by) ==
    LET o == LookupIn(heap, tid)
    IN /\ r.saved
       /\ r.hp[o].closed /\ r.hp[o].cancelled
       /\ r.hp[o].cancelled_by = by /\ r.hp[o].cancelled_ts = now
       /\ \A p \in 1..Len(heap) : p # o => r.hp[p] = heap[p]

\* C24 as stated: a cancel returns NotFound for an unknown id,
\* AlreadyClosed for a closed task and Forbidden when the actor is neither
\* the creator nor an administrator, each time without changing a task
\* field or saving; every other cancel succeeds and leaves the task closed
\* and cancelled with actor and time.
C24_CancelErrors ==
    \A tid \in CancelIds, a \in CancelActors :
        LET o == LookupIn(heap, tid)
            r == CancelChoiceResult(heap, tid, a.id, a.level)
        IN /\ o = 0 => r.code = "NotFound"
           /\ (o # 0 /\ heap[o].closed) => r.code = "AlreadyClosed"
           /\ (o # 0 /\ ~heap[o].closed /\ a.level < 3 /\ heap[o].creator_id # a.id)
                 => r.code = "Forbidden"
           /\ r.code # "Ok" => Refused(r)
           /\ r.code = "Ok" => CancelledBy(r, tid, a.id)

\* C24, amended: the cancel choice answers Ended (not found or ended) for
\* an unknown id, a closed task and a task whose deadline has passed, and
\* Forbidden for an active task when the actor is neither its creator nor
\* an administrator, each time without changing a task field or saving;
\* every other cancel succeeds: the task is closed and cancelled with the
\* actor and the time, and the table is saved.  cancel_task itself returns
\* NotFound and AlreadyClosed, without a change, whoever the actor is.
C24_CancelChoiceErrors ==
    \A tid \in CancelIds, a \in CancelActors :
        LET o == LookupIn(heap, tid)
            r == CancelChoiceResult(heap, tid, a.id, a.level)
            d == CancelTaskResult(heap, tid, a.id)
        IN /\ r.code \in {"Ended", "Forbidden", "Ok"}
           /\ r.code = "Ended" <=> (o = 0 \/ ~IsActive(heap[o], now))
           /\ r.code = "Forbidden" <=>
                 /\ o # 0 /\ IsActive(heap[o], now)
                 /\ a.level < 3 /\ heap[o].creator_id # a.id
           /\ r.code # "Ok" => Refused(r)
           /\ r.code = "Ok" => CancelledBy(r, tid, a.id)
           /\ d.code = "NotFound" <=> o = 0
           /\ d.code = "AlreadyClosed" <=> (o # 0 /\ heap[o].closed)
           /\ d.code # "Ok" => Refused(d)

\* an administrator has cancelled one task of the creator, and the other
\* task is active: the creator may cancel it, the other member may not
C24_Witness ==
    \E p, o \in TableObjs :
        /\ heap[p].cancelled /\ heap[p].cancelled_by = 12 /\ heap[p].creator_id = 10
        /\ IsActive(heap[o], now)
        /\ CancelChoiceResult(heap, heap[o].task_id, 11, 2).code = "Forbidden"
        /\ CancelChoiceResult(heap, heap[o].task_id, 10, 2).code = "Ok"
        /\ CancelChoiceResult(heap, heap[p].task_id, 10, 2).code = "Ended"

\* ====================================================================
\* Properties of the missing list (specification SpecRoster)
\* ====================================================================
\* the submitted files: hidden files and partial downloads do not count
Submitted == {f \in cm.files : ~Skipped(f)}

\* the student id of roster entry e was extracted from a submitted file
IdSeen(e) == e[1] # "" /\ \E f \in Submitted : ExtractStudentId(f) = e[1]

\* the name of roster entry e was matched in a submitted file
NameSeen(e) ==
    e[2] # "" /\ \E f \in Submitted : MatchedName(f, cm.roster, cm.names) = e[2]

\* C25: compute_missing partitions the roster: a roster entry is counted as
\* handed in exactly when its student id was extracted from some submitted
\* file or its name was matched in some submitted file, every other entry
\* is in the missing list (in roster order), and
\* missing.length + handed_in = roster_total = the length of the roster.
C25_RosterPartition ==
    cm.called /\ cm.out.ok =>
        LET st == cm.out.stats
            seen == {i \in 1..Len(cm.roster) : IdSeen(cm.roster[i]) \/ NameSeen(cm.roster[i])}
        IN /\ st.handed_in = Cardinality(seen)
           /\ cm.out.missing = SelectSeq(cm.roster, LAMBDA e : ~(IdSeen(e) \/ NameSeen(e)))
           /\ st.missing = Len(cm.out.missing)
           /\ st.roster_total = Len(cm.roster)
           /\ st.missing + st.handed_in = st.roster_total

\* a roster of four with one entry handed in by its id alone (a lower-case
\* id in the file name), one by its name alone and two missing
C25_Witness ==
    /\ cm.called /\ cm.out.ok
    /\ Len(cm.roster) = 4
    /\ cm.files = {<<"u1", "x">>, <<"zsf">>, <<"a">>, <<".", "ls">>}
    /\ cm.out.stats.handed_in = 2
    /\ cm.out.missing = << <<"U2", "ls">>, <<"U3", "">> >>

\* the submitted files in which a roster name was recognized
Recognized ==
    {f \in Submitted : MatchedName(f, cm.roster, cm.names) # ""}

\* C26: the degrade-to-submitted-file-list flag is set exactly when at
\* least one submitted file exists and 5 * recognized < total; with no
\* submitted file the flag is not set and the roster diff is reported.
C26_DegradeBelowFifth ==
    cm.called /\ cm.out.ok =>
        LET st == cm.out.stats
            total == Cardinality(Submitted)
            recognized == Cardinality(Recognized)
        IN /\ st.submitted_files_total = total
           /\ st.recognized_name_files = recognized
           /\ st.use_submitted_list <=> (total > 0 /\ 5 * recognized < total)
           /\ MessageKind(st) = "submitted_list" <=> st.use_submitted_list
           /\ total = 0 => MessageKind(st) = "roster_diff"

\* exactly one of five submitted files has a recognized name (20%): the
\* roster diff is still reported
C26_Witness ==
    /\ cm.called /\ cm.out.ok
    /\ Cardinality(Submitted) = 5
    /\ Cardinality(Recognized) = 1
    /\ ~cm.out.stats.use_submitted_list

\* ====================================================================
\* Properties of retention and export
\* ====================================================================
\* task t is inactive at time n and its last export (0: never exported)
\* lies at least the retention window back
RetentionOver(t, n) ==
    /\ ~IsActive(t, n)
    /\ n - t.last_handinget_ts >= KEEP_TICKS

\* C27: after a retention sweep at time now, every inactive task of the
\* table with now - last_handinget_ts >= the retention window is purged
\* and its directory is gone, whatever last_handinget_ts is (0 for a task
\* that was never exported).
C27_SweepPurgesAllOverdue ==
    [][ SweepStep =>
            \A o \in SeqRange(tbl') :
                RetentionOver(heap'[o], now) =>
                    /\ heap'[o].purged
                    /\ <<heap'[o].group_id, heap'[o].name>> \notin dirs'
      ]_vars

\* C28: is_task_gettable returns false for every task that is purged or
\* whose directory no longer exists and leaves the directories on disk as
\* they were, and zip_submissions of such a task fails and writes no
\* archive file.
C28_GoneIsNotExportable ==
    \A o \in TableObjs :
        (heap[o].purged \/ TaskDir(heap[o]) \notin dirs) =>
            /\ ~IsTaskGettable(dirs, heap[o]).ret
            /\ IsTaskGettable(dirs, heap[o]).dirs = dirs
            /\ ~ZipSubmissions(dirs, heap[o]).ok
            /\ ~ZipSubmissions(dirs, heap[o]).zip

\* ====================================================================
\* Properties of the reminder list of a created task
\* ====================================================================
\* the reminder list of task t is strictly increasing (so it holds no
\* value twice) and lies strictly before the deadline
RemindersInOrder(t) ==
    /\ \A i, j \in 1..Len(t.remind_ts_list) :
          i < j => t.remind_ts_list[i] < t.remind_ts_list[j]
    /\ \A i \in 1..Len(t.remind_ts_list) : t.remind_ts_list[i] < t.deadline_ts

\* C29: a /handin whose reminders hold a time at or after the deadline
\* fails and changes neither the task objects, the table, the persisted
\* document nor the directories; every task that exists holds a reminder
\* list that is duplicate-free, strictly increasing and strictly before
\* deadline_ts, in whatever order and multiplicity the reminders came.
C29_RemindersBeforeDeadline ==
    [][ /\ \A o \in 1..Len(heap') : RemindersInOrder(heap'[o])
        /\ \A g \in Groups, c \in Creators, in \in CreateInputs :
              ((\E i \in 1..Len(in[2]) : in[2][i] >= in[3])
                  /\ HandinCommand(g, c, in))
                 => UNCHANGED <<heap, tbl, db, dirs>>
      ]_vars

\* a task created from the reminders 3, 2, 2 holds the list 2, 3
C29_Witness ==
    \E o \in TableObjs :
        /\ heap[o].remind_ts_list = <<2, 3>>
        /\ heap[o].deadline_ts = 4

\* ====================================================================
\* Properties of the replies of the conversation
\* ====================================================================
\* C30: every text that a pending-mode handler consumes is answered by
\* exactly one reply before the handler returns, in every mode and on
\* every branch.
C30_OneReplyPerInput ==
    /\ \A t \in PrivateTexts :
          Consumer(Cur, "private", t) # "parser" =>
              Replies(Consumer(Cur, "private", t), Cur, t) = 1
    /\ \A t \in GroupTexts :
          Consumer(Cur, "group", t) # "parser" =>
              Replies(Consumer(Cur, "group", t), Cur, t) = 1

\* ====================================================================
\* Properties of is_active
\* ====================================================================
\* C31: for every task and every time n, is_active(t, n) is true exactly
\* when t is not closed and n lies strictly before deadline_ts - at
\* n = deadline_ts the task is inactive even if the scheduler has not
\* closed it yet - and list_active_tasks holds exactly the tasks of the
\* table that are not closed with now < deadline_ts.
C31_ActiveUntilDeadline ==
    /\ \A o \in 1..Len(heap), n \in 0..(MaxTime + 1) :
          IsActive(heap[o], n) <=>
              (heap[o].closed = FALSE /\ heap[o].deadline_ts > n)
    /\ {ActiveTasks(heap)[i] : i \in 1..Len(ActiveTasks(heap))}
          = {o \in TableObjs : heap[o].closed = FALSE /\ heap[o].deadline_ts > now}

\* the clock stands at the deadline of a task the scheduler has not closed
C31_Witness ==
    \E o \in TableObjs :
        /\ ~heap[o].closed
        /\ now = heap[o].deadline_ts
        /\ ~IsActive(heap[o], now)

\* ====================================================================
\* Properties of the file-name extractors (specification SpecNames)
\* ====================================================================
\* positions a..b of the stem are a token of the cleaned name that is a
\* valid name: two or three Han characters between blanks (or the ends)
\* with no blacklisted word in them
ValidNameToken(s, a, b) ==
    /\ b - a + 1 \in {2, 3}
    /\ \A i \in a..b : IsHan(s[i])
    /\ a = 1 \/ Blank(s, a - 1)
    /\ b = Len(s) \/ Blank(s, b + 1)
    /\ \A w \in BLACKLIST_SUBSTRINGS, i \in a..b :
          i + Len(w) - 1 <= b => SubSeq(s, i, i + Len(w) - 1) # w

\* C32: for the stem of "dian-qi-gong-cheng 1 ban Zhang San - U202412345"
\* extract_student_id returns U202412345 and extract_name_from_filename
\* returns Zhang San; for every file name the name returned holds no
\* blacklisted word, and when the file name has valid name tokens of two
\* or three characters the rightmost of them is returned.
C32_RightmostCleanName ==
    xn.called =>
        /\ xn.stem = ExampleStem =>
              /\ xn.sid = <<"U", "2", "0", "2", "4", "1", "2", "3", "4", "5">>
              /\ xn.name = <<"Zhang", "San">>
        /\ \A w \in BLACKLIST_SUBSTRINGS, i \in 1..Len(xn.name) :
              i + Len(w) - 1 <= Len(xn.name) =>
                  SubSeq(xn.name, i, i + Len(w) - 1) # w
        /\ \A a, b \in 1..Len(xn.stem) :
              (/\ ValidNameToken(xn.stem, a, b)
               /\ \A c, d \in 1..Len(xn.stem) :
                     ValidNameToken(xn.stem, c, d) => c <= a)
                 => xn.name = SubSeq(xn.stem, a, b)

\* the extractors have run on the example file name
C32_Witness ==
    /\ xn.called
    /\ xn.stem = ExampleStem
    /\ xn.name = <<"Zhang", "San">>
    /\ Len(xn.sid) = 10

\* ====================================================================
\* Properties of cancelling against the scheduler
\* ====================================================================
\* the scheduler starts a notification send for the task it is working on
StartsSend == spc = "body" /\ spc' \in {"rem_await", "dl_await"}

\* C33: once cancel_task has succeeded for a task, the scheduler starts
\* no reminder send and no deadline send for that task - also when the
\* task was cancelled while the pass was suspended at a send for it and
\* further reminder times of the task have elapsed.
C33_NoSendAfterCancel ==
    [][StartsSend => ~heap[scur].cancelled]_vars

\* ====================================================================
\* Properties of the archives of different tasks
\* ====================================================================
\* the tasks of the table whose list of submitted files changes in the step
ListChanged ==
    {o \in TableObjs :
        ListSubmittedFiles(archive', heap[o]) # ListSubmittedFiles(archive, heap[o])}

\* C34: each task has an archive of its own: a file archived into one
\* task shows up in the submitted-file list (and so in the missing-list
\* computation and the export) of that task only, so a step changes the
\* list of at most one task - also when two tasks of one group have the
\* same name, one created after the other was closed.
C34_ArchivePerTask ==
    [][Cardinality(ListChanged) <= 1]_vars

\* ====================================================================
\* Properties of the retries of a send
\* ====================================================================
\* the uploads of the phase ph (one call of _send_file) on the channel ch
ChannelLog(ph, ch) == SelectSeq(PhaseLog(ph), LAMBDA e : e[2] = ch)

\* C35: one call of _send_file makes at most 1 + len(SEND_RETRY_DELAYS)
\* uploads on each channel; an upload is followed by another one on the
\* same channel only if it failed with a transient failure; and the
\* private channel is entered at most once: after a private upload no
\* group upload follows in the same call.
C35_BoundedRetries ==
    \A ph \in {"source", "zip"} :
        /\ \A ch \in {"group", "private"} :
              /\ Len(ChannelLog(ph, ch)) <= 1 + Len(SEND_RETRY_DELAYS)
              /\ \A i \in 1..(Len(ChannelLog(ph, ch)) - 1) :
                    Transient(ChannelLog(ph, ch)[i][3])
        /\ \A i, j \in 1..Len(PhaseLog(ph)) :
              (i < j /\ PhaseLog(ph)[i][2] = "private")
                  => PhaseLog(ph)[j][2] = "private"

\* the group channel was tried as often as allowed and the private
\* fallback has been used
C35_Witness ==
    /\ Len(ChannelLog("source", "group")) = 1 + Len(SEND_RETRY_DELAYS)
    /\ Len(ChannelLog("source", "private")) >= 2

\* ====================================================================
\* Properties of the bulk export
\* ====================================================================
\* a step that changes last_handinget_ts of some task
ExportStamped ==
    \E o \in 1..Len(heap) : heap'[o].last_handinget_ts # heap[o].last_handinget_ts

\* a step that ends a getzip flow
ExportEnds == choose.mode = "getzip" /\ choose' = NoChoose

\* the delivery of the getzip flow came back Sent or Pending
ExportCame ==
    up.pc = "ret" /\ up.phase = "export" /\ up.ret.sent \in {"True", "None"}

\* C36: last_handinget_ts changes only in the step of the getzip flow that
\* follows a delivery that ended Sent (True) or Pending (None), and there
\* only on the picked task; a getzip flow that ends otherwise (cancelled,
\* packing failed, staging failed, delivery failed) leaves every field of
\* every task as it was.
C36_ExportStampOnlyDelivered ==
    [][/\ ExportStamped =>
            /\ ExportCame
            /\ heap' = [heap EXCEPT ![up.task].last_handinget_ts = now]
       /\ (ExportEnds /\ ~ExportCame) => heap' = heap]_vars

\* an export was delivered unconfirmed and stamped after a retry
C36_Witness ==
    /\ up.pc = "replied"
    /\ up.phase = "export"
    /\ up.ret.sent = "None"
    /\ Len(up.log) >= 2
    /\ heap[up.task].last_handinget_ts = now

\* ... and a failed delivery ended a flow with the stamp still unset
C36_FailedReached ==
    /\ up.pc = "replied"
    /\ up.phase = "export"
    /\ up.ret.sent = "False"
    /\ heap[up.task].last_handinget_ts = 0

\* ====================================================================
\* Properties of the dispatches of one user
\* ====================================================================
\* the user whose BotState entries a dispatch with the key k reads and
\* writes: the private conversation and the group membership of ConvKeys
\* are the same user's
KeyUser(k) == IF k \in {"p:10:private", "g:1:10"} THEN User ELSE 0

\* the dispatches of the live connection that are in progress for user u
Dispatching(u) ==
    {i \in 1..Len(cl.tasks) : /\ cl.tasks[i].gen = cl.gen
                              /\ cl.tasks[i].st = "run"
                              /\ KeyUser(cl.tasks[i].key) = u}

\* C37: at no moment are two dispatches of one connection in progress
\* that work on the session state of the same user.
C37_OneDispatchPerUser == Cardinality(Dispatching(User)) <= 1

\* ====================================================================
\* Properties of the order of sweep, reminders and deadline
\* ====================================================================
\* C38: in every state a purged task is closed (its deadline notification
\* went out, or it was cancelled, before the sweep removed its archive).
C38_PurgedIsClosed ==
    \A o \in TableObjs : heap[o].purged => heap[o].closed

\* in every state 0 <= remind_sent_idx <= the number of reminders of the
\* task, and a task closed by the scheduler (closed, not cancelled) has had
\* all its reminders sent
ReminderIndexInRange ==
    \A o \in TableObjs :
        /\ heap[o].remind_sent_idx >= 0
        /\ heap[o].remind_sent_idx <= Len(heap[o].remind_ts_list)
        /\ (heap[o].closed /\ ~heap[o].cancelled)
              => heap[o].remind_sent_idx = Len(heap[o].remind_ts_list)

\* remind_sent_idx of a task does not decrease in this step
ReminderIndexGrows ==
    \A o \in 1..Len(heap) : heap'[o].remind_sent_idx >= heap[o].remind_sent_idx

\* C39: for every task, in every state 0 <= remind_sent_idx <= the number
\* of its reminders, remind_sent_idx never decreases, and the deadline
\* notification comes after all reminders: a task that is closed and not
\* cancelled has remind_sent_idx equal to the number of its reminders.
\* (The table is empty at the start, so the state after every step covers
\* every state with a task.)
C39_RemindersBeforeDeadline ==
    [][ReminderIndexInRange' /\ ReminderIndexGrows]_vars

\* the scheduler closed a task with two reminders
C39_Witness ==
    \E o \in TableObjs :
        /\ heap[o].closed
        /\ ~heap[o].cancelled
        /\ Len(heap[o].remind_ts_list) >= 2
        /\ heap[o].remind_sent_idx = Len(heap[o].remind_ts_list)

\* ====================================================================
\* Properties of the moment of the move into an archive
\* ====================================================================
\* the archive entries this step writes
ArchiveGains == archive' \ archive

\* the task the handlers move a file for: the one of the pending
\* overwrite confirmation, which is served first, otherwise the one the
\* submit list is answered with
MoveTarget ==
    IF overwrite # NoOverwrite THEN overwrite.task_id
    ELSE IF choose.mode = "submit" /\ choose.task_ids # <<>>
    THEN choose.task_ids[1]
    ELSE <<>>

\* C40: a step moves a file into an archive only for a task that is in the
\* table and active at the moment of the step, and into the directory of
\* that task - on the first attempt (the answer to the submit list) and on
\* the attempt that follows a confirmed overwrite alike.
C40_MoveOnlyIntoActive ==
    [][ArchiveGains # {} =>
          LET o == LookupIn(heap, MoveTarget)
          IN /\ o # 0
             /\ IsActive(heap[o], now)
             /\ \A a \in ArchiveGains :
                   a[1] = <<heap[o].group_id, heap[o].name>>]_vars

\* two files were moved into the archive of a task that is still active
C40_Witness ==
    \E o \in TableObjs :
        /\ IsActive(heap[o], now)
        /\ Cardinality(ListSubmittedFiles(archive, heap[o])) >= 2
====
